---- MODULE Spec2Model ----
(***************************************************************************)
(* A model of the simple_raster software rasterizer: the per-pixel        *)
(* fragment accumulator (alpha_buffer.rs), the triangle rasterizer        *)
(* (rasterizer/mod.rs, bounding_box.rs), the post-processor               *)
(* (post_processor/mod.rs) and the renderer that runs them (renderer/     *)
(* mod.rs).                                                                *)
(*                                                                         *)
(* f32 values are modelled as sign-magnitude extended rationals           *)
(* <<s, n, d>>: s is the sign (1 or -1), n/d the magnitude in lowest      *)
(* terms.  d = 0 holds the values that are not ordinary numbers:          *)
(* <<1,0,0>> is NaN, <<s,1,0>> is s*infinity and <<1,2,0>> is f32::MAX,    *)
(* which the program only ever compares against.  Zero keeps its sign     *)
(* (<<1,0,1>> is +0.0, <<-1,0,1>> is -0.0) because the sign of a zero     *)
(* divisor decides the sign of an infinite quotient.  Arithmetic is exact: *)
(* the rounding of f32 is not modelled.                                    *)
(***************************************************************************)
EXTENDS Integers, Sequences, FiniteSets, TLC

(***************************************************************************)
(* Bounds of the model.                                                    *)
(***************************************************************************)
Width == 4
Height == 4
MaxThreads == 2
MaxDraws == 2
MaxFrames == 2
MaxBound == 2
MaxTexSize == 3

(***************************************************************************)
(* f32 arithmetic.                                                         *)
(***************************************************************************)
RECURSIVE GCD(_, _)
GCD(a, b) == IF b = 0 THEN a ELSE GCD(b, a % b)

NaN == <<1, 0, 0>>
Inf(s) == <<s, 1, 0>>
F32_MAX == <<1, 2, 0>>
Zero(s) == <<s, 0, 1>>

IsNaN(a) == a[3] = 0 /\ a[2] = 0
IsInf(a) == a[3] = 0 /\ a[2] = 1
IsZero(a) == a[3] # 0 /\ a[2] = 0
IsFinite(a) == a[3] # 0

\* the f32 of the rational s*n/d (d > 0), in lowest terms
Norm(s, n, d) == IF n = 0 THEN Zero(s)
                 ELSE LET g == GCD(n, d) IN <<s, n \div g, d \div g>>

\* integer, and integer ratio, literals
I(k) == IF k < 0 THEN <<-1, -k, 1>> ELSE <<1, k, 1>>
Q(n, d) == IF n < 0 THEN Norm(-1, -n, d) ELSE Norm(1, n, d)

FNeg(a) == IF IsNaN(a) THEN NaN ELSE <<-a[1], a[2], a[3]>>

FMul(a, b) ==
    IF IsNaN(a) \/ IsNaN(b) THEN NaN
    ELSE IF (IsInf(a) /\ IsZero(b)) \/ (IsZero(a) /\ IsInf(b)) THEN NaN
    ELSE IF IsInf(a) \/ IsInf(b) THEN Inf(a[1] * b[1])
    ELSE Norm(a[1] * b[1], a[2] * b[2], a[3] * b[3])

FDiv(a, b) ==
    IF IsNaN(a) \/ IsNaN(b) THEN NaN
    ELSE IF (IsInf(a) /\ IsInf(b)) \/ (IsZero(a) /\ IsZero(b)) THEN NaN
    ELSE IF IsInf(a) \/ IsZero(b) THEN Inf(a[1] * b[1])
    ELSE IF IsInf(b) THEN Zero(a[1] * b[1])
    ELSE Norm(a[1] * b[1], a[2] * b[3], a[3] * b[2])

FAdd(a, b) ==
    IF IsNaN(a) \/ IsNaN(b) THEN NaN
    ELSE IF IsInf(a) /\ IsInf(b) THEN (IF a[1] = b[1] THEN a ELSE NaN)
    ELSE IF IsInf(a) THEN a
    ELSE IF IsInf(b) THEN b
    ELSE LET num == a[1] * a[2] * b[3] + b[1] * b[2] * a[3]
             den == a[3] * b[3]
         IN  IF num = 0
             THEN Zero(IF a[1] = -1 /\ b[1] = -1 THEN -1 ELSE 1)
             ELSE IF num < 0 THEN Norm(-1, -num, den) ELSE Norm(1, num, den)

FSub(a, b) == FAdd(a, FNeg(b))

\* position of a value that is not NaN among -inf < finite < f32::MAX < +inf
Level(a) == IF a[3] # 0 THEN 0 ELSE IF a[2] = 1 THEN 2 * a[1] ELSE 1

\* the comparisons of f32: every comparison with NaN is false
FLt(a, b) ==
    /\ ~IsNaN(a)
    /\ ~IsNaN(b)
    /\ \/ Level(a) < Level(b)
       \/ /\ Level(a) = 0
          /\ Level(b) = 0
          /\ a[1] * a[2] * b[3] < b[1] * b[2] * a[3]
FEq(a, b) ==
    /\ ~IsNaN(a)
    /\ ~IsNaN(b)
    /\ Level(a) = Level(b)
    /\ Level(a) = 0 => a[1] * a[2] * b[3] = b[1] * b[2] * a[3]
FLe(a, b) == FLt(a, b) \/ FEq(a, b)
FGt(a, b) == FLt(b, a)
FGe(a, b) == FLe(b, a)

\* f32::min and f32::max: a NaN operand is ignored
FMin(a, b) == IF IsNaN(a) THEN b ELSE IF IsNaN(b) THEN a
              ELSE IF FLt(b, a) THEN b ELSE a
FMax(a, b) == IF IsNaN(a) THEN b ELSE IF IsNaN(b) THEN a
              ELSE IF FLt(a, b) THEN b ELSE a

\* `as usize` of an f32: truncation, NaN and negatives to 0.  The program
\* only casts values it has clamped to the screen, so the saturation of
\* +infinity to usize::MAX is never taken and is left out (d = 0 gives 0).
AsUsize(a) == IF a[3] = 0 \/ a[1] = -1 THEN 0 ELSE a[2] \div a[3]

\* `as u16` in place of `as u8`: truncation that keeps values above 255
AsU8_as_u16(a) == IF IsNaN(a) \/ a[1] = -1 THEN 0
                  ELSE IF a[3] = 0 THEN 65535
                  ELSE IF a[2] \div a[3] > 65535 THEN 65535 ELSE a[2] \div a[3]

\* `as u8` of an f32: truncation saturated to 0..255, NaN to 0
AsU8(a) == IF IsNaN(a) \/ a[1] = -1 THEN 0
           ELSE IF a[3] = 0 THEN 255
           ELSE IF a[2] \div a[3] > 255 THEN 255 ELSE a[2] \div a[3]

\* f as an explicit table: `@@` (module TLC) lists its argument out, where
\* [x \in S |-> e] alone is computed again at every application
Table(f) == f @@ <<>>

(***************************************************************************)
(* alpha_buffer.rs: Fragment and RenderBufferPixel.                        *)
(* A colour is <<r, g, b, a>> (Vector4<f32>) or <<r, g, b>> (Vector3<f32>).*)
(***************************************************************************)
Fragment(colour, depth) == [colour |-> colour, depth |-> depth]

xyz(v) == <<v[1], v[2], v[3]>>
push(v, a) == <<v[1], v[2], v[3], a>>

RenderBufferPixel_new(background_colour) ==
    [fragments |-> <<>>,
     background |-> Fragment(push(background_colour, I(1)), F32_MAX)]

\* add routing to the background slot only the fragments of alpha 1 and more
add_threshold_one(cell, fragment) ==
    IF FGe(fragment.colour[4], I(1))
    THEN [cell EXCEPT !.background = fragment]
    ELSE [cell EXCEPT !.fragments = Append(@, fragment)]

add(cell, fragment) ==
    IF FGe(fragment.colour[4], Q(9999, 10000))
    THEN [cell EXCEPT !.background = fragment]
    ELSE [cell EXCEPT !.fragments = Append(@, fragment)]

get_background(cell) == cell.background

\* sort_by(|a, b| a.depth.partial_cmp(&b.depth).unwrap()): partial_cmp is
\* None when either depth is NaN.  A sort of fewer than two elements makes
\* no comparison; a sort of two or more compares every element at least once.
SortPanics(fragments) ==
    Len(fragments) >= 2 /\ \E k \in 1..Len(fragments) : IsNaN(fragments[k].depth)

\* the stable sort by ascending depth: x goes behind the elements not
\* farther than it
RECURSIVE InsertByDepth(_, _)
InsertByDepth(x, sorted) ==
    IF sorted = <<>> THEN <<x>>
    ELSE IF FLt(x.depth, Head(sorted).depth) THEN <<x>> \o sorted
    ELSE <<Head(sorted)>> \o InsertByDepth(x, Tail(sorted))

RECURSIVE SortByDepth(_)
SortByDepth(fragments) ==
    IF Len(fragments) < 2 THEN fragments
    ELSE InsertByDepth(fragments[Len(fragments)],
                       SortByDepth(SubSeq(fragments, 1, Len(fragments) - 1)))

\* Blend without the factor (1.0 - alpha) on what lies behind
Blend_additive(fragment, result_colour) ==
    LET alpha == fragment.colour[4]
    IN  [c \in 1..3 |-> FAdd(FMul(fragment.colour[c], alpha), result_colour[c])]

\* result_colour = fragment.colour.xyz() * alpha + result_colour * (1.0 - alpha)
Blend(fragment, result_colour) ==
    LET alpha == fragment.colour[4]
    IN  [c \in 1..3 |-> FAdd(FMul(fragment.colour[c], alpha),
                             FMul(result_colour[c], FSub(I(1), alpha)))]

\* the loop of resolve over the sorted fragments
RECURSIVE Composite(_, _, _)
Composite(fragments, background_depth, result_colour) ==
    IF fragments = <<>> THEN result_colour
    ELSE Composite(Tail(fragments), background_depth,
                   IF FGt(Head(fragments).depth, background_depth)
                   THEN result_colour
                   ELSE Blend(Head(fragments), result_colour))

\* resolve without the sort: the fragments composited in insertion order
resolve_unsorted(cell, background_colour) ==
    [panicked |-> FALSE,
     colour |-> Composite(cell.fragments, cell.background.depth,
                          xyz(cell.background.colour)),
     cell |-> RenderBufferPixel_new(background_colour)]

\* resolve without self.fragments.clear()
resolve_keeps_fragments(cell, background_colour) ==
    IF SortPanics(cell.fragments)
    THEN [panicked |-> TRUE, colour |-> <<>>, cell |-> cell]
    ELSE [panicked |-> FALSE,
          colour |-> Composite(SortByDepth(cell.fragments),
                               cell.background.depth,
                               xyz(cell.background.colour)),
          cell |-> [cell EXCEPT !.background =
                        RenderBufferPixel_new(background_colour).background]]

\* resolve without the reset of self.background
resolve_keeps_background(cell, background_colour) ==
    IF SortPanics(cell.fragments)
    THEN [panicked |-> TRUE, colour |-> <<>>, cell |-> cell]
    ELSE [panicked |-> FALSE,
          colour |-> Composite(SortByDepth(cell.fragments),
                               cell.background.depth,
                               xyz(cell.background.colour)),
          cell |-> [cell EXCEPT !.fragments = <<>>]]

\* resolve(&mut self, background_colour): the colour returned and the cell
\* left behind; a panic of the sort leaves the cell as it was
resolve(cell, background_colour) ==
    IF SortPanics(cell.fragments)
    THEN [panicked |-> TRUE, colour |-> <<>>, cell |-> cell]
    ELSE [panicked |-> FALSE,
          colour |-> Composite(SortByDepth(cell.fragments),
                               cell.background.depth,
                               xyz(cell.background.colour)),
          cell |-> RenderBufferPixel_new(background_colour)]

(***************************************************************************)
(* bounding_box.rs.  A BoundingBox is [min |-> <<x, y>>, max |-> <<x, y>>]  *)
(* of usize; a Vector2<f32> is <<x, y>>.                                   *)
(***************************************************************************)
BoundingBox_new(min, max) == [min |-> min, max |-> max]

\* the loop of from_triangle over the vertices; acc is
\* <<bounding_box_min, bounding_box_max>>
RECURSIVE ClampToVertices(_, _, _, _)
ClampToVertices(vertex_positions, acc, lower_clamp, upper_clamp) ==
    IF vertex_positions = <<>> THEN acc
    ELSE LET vertex == Head(vertex_positions)
             bmin == acc[1]
             bmax == acc[2]
         IN  ClampToVertices(Tail(vertex_positions),
                 << <<FMax(FMin(bmin[1], vertex[1]), lower_clamp[1]),
                      FMax(FMin(bmin[2], vertex[2]), lower_clamp[2])>>,
                    <<FMin(FMax(bmax[1], vertex[1]), upper_clamp[1]),
                      FMin(FMax(bmax[2], vertex[2]), upper_clamp[2])>> >>,
                 lower_clamp, upper_clamp)

from_triangle(vertex_positions, bounding_box) ==
    LET upper_clamp == <<FSub(I(bounding_box.max[1]), I(1)),
                         FSub(I(bounding_box.max[2]), I(1))>>
        lower_clamp == <<I(bounding_box.min[1]), I(bounding_box.min[2])>>
        acc == ClampToVertices(vertex_positions,
                               <<upper_clamp, <<I(0), I(0)>> >>,
                               lower_clamp, upper_clamp)
    IN  [min |-> <<AsUsize(acc[1][1]), AsUsize(acc[1][2])>>,
         max |-> <<AsUsize(acc[2][1]), AsUsize(acc[2][2])>>]

\* the inclusive ranges min.x..=max.x and min.y..=max.y
x_iter(bb) == bb.min[1]..bb.max[1]
y_iter(bb) == bb.min[2]..bb.max[2]

(***************************************************************************)
(* rasterizer/mod.rs: the geometry of draw_triangle.  A Vector4<f32> is    *)
(* <<x, y, z, w>>.                                                         *)
(***************************************************************************)
\* the rows of build_viewport_matrix((0.0, 0.0), width, height)
build_viewport_matrix(width, height) ==
    << <<FDiv(I(width), I(2)), I(0), I(0), FAdd(I(0), FDiv(I(width), I(2)))>>,
       <<I(0), FDiv(FNeg(I(height)), I(2)), I(0), FAdd(I(0), FDiv(I(height), I(2)))>>,
       <<I(0), I(0), I(1), I(0)>>,
       <<I(0), I(0), I(0), I(1)>> >>

\* Matrix4 * Vector4
MatMul(m, v) ==
    [r \in 1..4 |-> FAdd(FAdd(FAdd(FMul(m[r][1], v[1]), FMul(m[r][2], v[2])),
                              FMul(m[r][3], v[3])),
                         FMul(m[r][4], v[4]))]

calculate_barycentric_coordinates(vertex_positions, pixel) ==
    LET a == vertex_positions[1]
        b == vertex_positions[2]
        c == vertex_positions[3]
        area == FMul(Q(1, 2),
                     FSub(FMul(FSub(b[1], a[1]), FSub(c[2], a[2])),
                          FMul(FSub(c[1], a[1]), FSub(b[2], a[2]))))
        alpha == FDiv(FMul(Q(1, 2),
                           FSub(FMul(FSub(b[1], pixel[1]), FSub(c[2], pixel[2])),
                                FMul(FSub(c[1], pixel[1]), FSub(b[2], pixel[2])))),
                      area)
        beta == FDiv(FMul(Q(1, 2),
                          FSub(FMul(FSub(c[1], pixel[1]), FSub(a[2], pixel[2])),
                               FMul(FSub(a[1], pixel[1]), FSub(c[2], pixel[2])))),
                     area)
        gamma == FSub(FSub(I(1), alpha), beta)
    IN  <<alpha, beta, gamma>>

triangle_outside_screen(vertex_positions) ==
    \E k \in 1..3 :
        LET vertex == vertex_positions[k]
        IN  /\ FLt(vertex[1], FNeg(vertex[4])) \/ FGt(vertex[1], vertex[4])
            /\ FLt(vertex[2], FNeg(vertex[4])) \/ FGt(vertex[2], vertex[4])
            /\ FLt(vertex[3], FNeg(vertex[4])) \/ FGt(vertex[3], vertex[4])

is_backface(vertex_positions) ==
    LET edge1 == [k \in 1..4 |-> FSub(vertex_positions[2][k], vertex_positions[1][k])]
        edge2 == [k \in 1..4 |-> FSub(vertex_positions[3][k], vertex_positions[1][k])]
        normal == <<FSub(FMul(edge1[2], edge2[3]), FMul(edge1[3], edge2[2])),
                    FSub(FMul(edge1[3], edge2[1]), FMul(edge1[1], edge2[3])),
                    FSub(FMul(edge1[1], edge2[2]), FMul(edge1[2], edge2[1]))>>
        view_direction == <<I(0), I(0), I(1)>>
        dot == FAdd(FAdd(FMul(normal[1], view_direction[1]),
                         FMul(normal[2], view_direction[2])),
                    FMul(normal[3], view_direction[3]))
    IN  FLe(dot, I(0))

cull_triangle(vertex_positions, cull_backfaces) ==
    triangle_outside_screen(vertex_positions)
        \/ (cull_backfaces /\ is_backface(vertex_positions))

get_frag_depth(vertex_positions, bary_clip) ==
    FAdd(FAdd(FMul(bary_clip[1], vertex_positions[1][3]),
              FMul(bary_clip[2], vertex_positions[2][3])),
         FMul(bary_clip[3], vertex_positions[3][3]))

\* the three screen_coords_pre_perspective of draw_triangle
ScreenCoordsPrePerspective(vertex_positions, viewport) ==
    [k \in 1..3 |-> MatMul(viewport, vertex_positions[k])]

\* screen_coords_2d: xy() / w
ScreenCoords2d(pre) ==
    [k \in 1..3 |-> <<FDiv(pre[k][1], pre[k][4]), FDiv(pre[k][2], pre[k][4])>>]

\* the test `bary.x < 0.0 || bary.y < 0.0 || bary.z < 0.0` that skips a pixel
OutsideTriangle(bary_coords) ==
    FLt(bary_coords[1], I(0)) \/ FLt(bary_coords[2], I(0)) \/ FLt(bary_coords[3], I(0))

\* bary_clip: the weights over the clip-space w, scaled to sum to one
BaryClip(bary_coords, pre) ==
    LET b == <<FDiv(bary_coords[1], pre[1][4]),
               FDiv(bary_coords[2], pre[2][4]),
               FDiv(bary_coords[3], pre[3][4])>>
        sum == FAdd(FAdd(b[1], b[2]), b[3])
    IN  <<FDiv(b[1], sum), FDiv(b[2], sum), FDiv(b[3], sum)>>

\* the pixels of a box in the order of the loops of draw_triangle: x outside,
\* y inside
PixelOrder(bb) ==
    LET nx == Cardinality(x_iter(bb))
        ny == Cardinality(y_iter(bb))
    IN  [k \in 1..(nx * ny) |->
            <<bb.min[1] + ((k - 1) \div ny), bb.min[2] + ((k - 1) % ny)>>]

\* The part of draw_triangle that does not depend on the accumulator: the
\* calls of draw_pixel it makes, in order, each [x, y, index, frag_depth,
\* bary_clip], index = x + y * width.
DrawPixelCalls(vertex_positions, cull_backfaces, viewport, bounding_box, width) ==
    IF cull_triangle(vertex_positions, cull_backfaces) THEN <<>>
    ELSE
    LET pre == ScreenCoordsPrePerspective(vertex_positions, viewport)
        screen_coords_2d == ScreenCoords2d(pre)
        triangle_bounding_box == from_triangle(screen_coords_2d, bounding_box)
        Bary(p) == calculate_barycentric_coordinates(screen_coords_2d,
                                                     <<I(p[1]), I(p[2])>>)
        inside == SelectSeq(PixelOrder(triangle_bounding_box),
                            LAMBDA p : ~OutsideTriangle(Bary(p)))
    IN  [k \in 1..Len(inside) |->
            [x |-> inside[k][1], y |-> inside[k][2],
             index |-> inside[k][1] + inside[k][2] * width,
             frag_depth |-> get_frag_depth(vertex_positions,
                                           BaryClip(Bary(inside[k]), pre)),
             bary_clip |-> BaryClip(Bary(inside[k]), pre)]]

(***************************************************************************)
(* The meshes and the shader the model draws with.  The shader is the      *)
(* caller's: here its vertex stage returns the clip-space position a       *)
(* vertex carries and its fragment stage returns one colour per face       *)
(* (a solid texture), or None.                                             *)
(***************************************************************************)
V(x, y, z, w) == <<I(x), I(y), I(z), I(w)>>
None == <<>>

White == <<I(1), I(1), I(1)>>
Black == <<I(0), I(0), I(0)>>
Red == <<I(1), I(0), I(0), I(1)>>
Blue == <<I(0), I(0), I(1), I(1)>>
RedHalf == <<I(1), I(0), I(0), Q(1, 2)>>
GreenHalf == <<I(0), I(1), I(0), Q(1, 2)>>
Clear == <<I(1), I(1), I(1), I(0)>>
\* an opaque colour with a component above 1 and one below 0
Overbright == <<I(2), I(-1), Q(1, 2), I(1)>>

Face(vertices, frag) == [v |-> vertices, frag |-> frag]

\* the upper-left half of the screen at depth z, counter-clockwise
UpperLeft(z) == <<V(-1, -1, z, 1), V(1, 1, z, 1), V(-1, 1, z, 1)>>
\* the lower-right half of the screen at depth z, counter-clockwise
LowerRight(z) == <<V(-1, -1, z, 1), V(1, -1, z, 1), V(1, 1, z, 1)>>

Meshes ==
    [quad |-> <<Face(LowerRight(0), Red), Face(UpperLeft(0), Red)>>,
     far |-> <<Face(UpperLeft(1), Blue)>>,
     glass_red |-> <<Face(UpperLeft(1), RedHalf)>>,
     glass_green |-> <<Face(UpperLeft(-1), GreenHalf)>>,
     back |-> <<Face(<<V(-1, -1, 0, 1), V(-1, 1, 0, 1), V(1, 1, 0, 1)>>,
                    Overbright)>>,
     degenerate |->
        <<Face(<<V(0, 0, 0, 1), V(0, 0, 0, 1), V(0, 0, 0, 1)>>, GreenHalf),
          Face(<<V(-1, 1, 0, 1), V(0, 1, 0, 1), V(1, 1, 0, 1)>>, Blue)>>,
     outside |->
        <<Face(UpperLeft(2), Blue),
          Face(UpperLeft(-2), Red),
          Face(<<V(2, -1, 0, 1), V(3, -1, 0, 1), V(2, 1, 0, 1)>>, Red),
          Face(<<V(-2, -1, 0, 1), V(-2, 1, 0, 1), V(-3, -1, 0, 1)>>, Red),
          Face(<<V(-1, 2, 0, 1), V(1, 2, 0, 1), V(-1, 3, 0, 1)>>, Red),
          Face(<<V(-1, -2, 0, 1), V(-1, -3, 0, 1), V(1, -2, 0, 1)>>, Red),
          Face(<<V(2, 2, 2, 1), V(3, 2, 2, 1), V(2, 3, 2, 1)>>, Red)>>,
     discard |-> <<Face(UpperLeft(0), None), Face(UpperLeft(0), Clear)>>]

MeshNames == DOMAIN Meshes

BackgroundColours == {White, Black}

(***************************************************************************)
(* rasterizer/mod.rs: draw_pixel, draw_triangle, draw_mesh.                *)
(***************************************************************************)
N == Width * Height

\* run_fragment_shader: the colour the shader returns for a face
run_fragment_shader(face) == face.frag

\* draw_pixel without the depth test against the background slot
draw_pixel_untested(cell, frag_depth, face) ==
    LET colour == run_fragment_shader(face)
    IN  IF colour = None
        THEN [cell |-> cell, shaded |-> TRUE, added |-> FALSE]
        ELSE IF FLe(colour[4], Q(1, 10000))
        THEN [cell |-> cell, shaded |-> TRUE, added |-> FALSE]
        ELSE [cell |-> add(cell, Fragment(colour, frag_depth)),
              shaded |-> TRUE, added |-> TRUE]

\* draw_pixel running the fragment shader before the depth test
draw_pixel_shades_first(cell, frag_depth, face) ==
    LET colour == run_fragment_shader(face)
    IN  IF FGe(frag_depth, get_background(cell).depth)
        THEN [cell |-> cell, shaded |-> TRUE, added |-> FALSE]
        ELSE IF colour = None
        THEN [cell |-> cell, shaded |-> TRUE, added |-> FALSE]
        ELSE IF FLe(colour[4], Q(1, 10000))
        THEN [cell |-> cell, shaded |-> TRUE, added |-> FALSE]
        ELSE [cell |-> add(cell, Fragment(colour, frag_depth)),
              shaded |-> TRUE, added |-> TRUE]

\* draw_pixel without the test `alpha <= 0.0001`
draw_pixel_keeps_clear(cell, frag_depth, face) ==
    IF FGe(frag_depth, get_background(cell).depth)
    THEN [cell |-> cell, shaded |-> FALSE, added |-> FALSE]
    ELSE LET colour == run_fragment_shader(face)
         IN  IF colour = None
             THEN [cell |-> cell, shaded |-> TRUE, added |-> FALSE]
             ELSE [cell |-> add(cell, Fragment(colour, frag_depth)),
                   shaded |-> TRUE, added |-> TRUE]

\* draw_pixel on the accumulator cell of the pixel: the cell left behind,
\* whether the fragment shader ran, and whether a fragment was inserted
draw_pixel(cell, frag_depth, face) ==
    IF FGe(frag_depth, get_background(cell).depth)
    THEN [cell |-> cell, shaded |-> FALSE, added |-> FALSE]
    ELSE LET colour == run_fragment_shader(face)
         IN  IF colour = None
             THEN [cell |-> cell, shaded |-> TRUE, added |-> FALSE]
             ELSE IF FLe(colour[4], Q(1, 10000))
             THEN [cell |-> cell, shaded |-> TRUE, added |-> FALSE]
             ELSE [cell |-> add(cell, Fragment(colour, frag_depth)),
                   shaded |-> TRUE, added |-> TRUE]

viewport == build_viewport_matrix(Width, Height)

\* rows_per_thread and the chunks of par_chunks_mut(width * rows_per_thread)
RowsPerThread(threads) == Height \div threads
NumChunks(threads) ==
    IF RowsPerThread(threads) = 0 THEN 0
    ELSE (Height + RowsPerThread(threads) - 1) \div RowsPerThread(threads)
ChunkStart(threads, row_num) == row_num * RowsPerThread(threads)
ChunkEnd(threads, row_num) == ChunkStart(threads, row_num) + RowsPerThread(threads)
\* the length of the slice alpha_buffer_row: the last chunk may be short
ChunkLen(threads, row_num) ==
    LET size == Width * RowsPerThread(threads)
    IN  IF (row_num + 1) * size <= N THEN size ELSE N - row_num * size
\* every slice starting at the head of render_buffer, as overlapping slices
\* taken without par_chunks_mut would
ChunkOffset_shared(threads, row_num) == 0

\* where par_chunks_mut starts the slice alpha_buffer_row in render_buffer
ChunkOffset(threads, row_num) == row_num * (Width * RowsPerThread(threads))

\* the cells of render_buffer the slice holds
ChunkCells(threads, row_num) ==
    ChunkOffset(threads, row_num)
        ..(ChunkOffset(threads, row_num) + ChunkLen(threads, row_num) - 1)
ChunkBox(threads, row_num) ==
    BoundingBox_new(<<0, ChunkStart(threads, row_num)>>,
                    <<Width - 1, ChunkEnd(threads, row_num)>>)

\* the calls of draw_pixel of every face of every mesh in every chunk, with
\* and without backface culling: DrawPixelCalls, computed once
CallsTable ==
    Table([mesh \in MeshNames |->
        Table([f \in 1..Len(Meshes[mesh]) |->
            Table([cull \in BOOLEAN |->
                Table([threads \in 1..MaxThreads |->
                    Table([row_num \in 0..(NumChunks(threads) - 1) |->
                        Table(DrawPixelCalls(Meshes[mesh][f].v, cull, viewport,
                                             ChunkBox(threads, row_num),
                                             Width))])])])])])

\* what a worker holds of its chunk: start, the slice alpha_buffer_row (its
\* length, and where it lies in render_buffer); computed once
SliceTable ==
    Table([threads \in 1..MaxThreads |->
        Table([row_num \in 0..(NumChunks(threads) - 1) |->
            [start |-> ChunkStart(threads, row_num),
             len |-> ChunkLen(threads, row_num),
             offset |-> ChunkOffset(threads, row_num)]])])

\* The loops of draw_triangle over one chunk.  acc is [cells, drawn,
\* panicked]: the accumulator cells, the record of the calls of draw_pixel
\* on each cell in this frame (with the chunk whose worker made the call),
\* and whether an index fell outside the slice of the chunk.  The cell a
\* call works on is element alpha_buffer_row_index of the slice.
RECURSIVE ApplyCalls(_, _, _, _, _, _)
ApplyCalls(calls, acc, mesh, f, row_num, slice) ==
    IF calls = <<>> \/ acc.panicked THEN acc
    ELSE LET call == Head(calls)
             alpha_buffer_row_index == call.index - slice.start * Width
         IN  IF alpha_buffer_row_index < 0 \/ alpha_buffer_row_index >= slice.len
             THEN [acc EXCEPT !.panicked = TRUE]
             ELSE LET k == slice.offset + alpha_buffer_row_index
                      res == draw_pixel(acc.cells[k], call.frag_depth, Meshes[mesh][f])
                      entry == [mesh |-> mesh, face |-> f, band |-> row_num,
                                depth |-> call.frag_depth,
                                shaded |-> res.shaded, added |-> res.added]
                  IN  ApplyCalls(Tail(calls),
                                 [acc EXCEPT !.cells[k] = res.cell,
                                             !.drawn[k] = Append(@, entry)],
                                 mesh, f, row_num, slice)

draw_triangle(acc, mesh, f, cull_backfaces, threads, row_num) ==
    ApplyCalls(CallsTable[mesh][f][cull_backfaces][threads][row_num], acc,
               mesh, f, row_num, SliceTable[threads][row_num])

\* `for (vertex_positions, vertex_outputs) in &faces` in one chunk
RECURSIVE DrawFaces(_, _, _, _, _, _)
DrawFaces(acc, mesh, f, cull_backfaces, threads, row_num) ==
    IF f > Len(Meshes[mesh]) \/ acc.panicked THEN acc
    ELSE DrawFaces(draw_triangle(acc, mesh, f, cull_backfaces, threads, row_num),
                   mesh, f + 1, cull_backfaces, threads, row_num)

\* the chunks write disjoint cells, so the workers' result is that of the
\* chunks taken one after the other
RECURSIVE DrawChunks(_, _, _, _, _)
DrawChunks(acc, mesh, cull_backfaces, threads, row_num) ==
    IF row_num >= NumChunks(threads) THEN acc
    ELSE DrawChunks(DrawFaces(acc, mesh, 1, cull_backfaces, threads, row_num),
                    mesh, cull_backfaces, threads, row_num + 1)

(***************************************************************************)
(* rasterizer/mod.rs: render_to_buffer; post_processor/mod.rs.             *)
(* A buffer of u32 is a function on 0..len-1.                              *)
(***************************************************************************)
BufLen(buf) == Cardinality(DOMAIN buf)
Zeros(len) == [k \in 0..(len - 1) |-> 0]

convert_colour_to_u32(colour) ==
    LET r == AsU8(FMul(colour[1], I(255)))
        g == AsU8(FMul(colour[2], I(255)))
        b == AsU8(FMul(colour[3], I(255)))
    IN  r * 65536 + g * 256 + b

\* The loop of render_to_buffer on a buffer of the right length.  It stops
\* at the first cell whose resolve panics (stop = N when none does): the
\* cells and the buffer before it are resolved and written, the rest is
\* left as it was.
ResolveStop(cells) ==
    IF \E k \in 0..(N - 1) : SortPanics(cells[k].fragments)
    THEN CHOOSE k \in 0..(N - 1) :
            /\ SortPanics(cells[k].fragments)
            /\ \A j \in 0..(k - 1) : ~SortPanics(cells[j].fragments)
    ELSE N

\* The loop of render_to_buffer over the cells before stop: each is resolved,
\* converted and written to the buffer (where the buffer has the element).
\* Cells of equal content resolve alike, so resolve is computed once for
\* each content that occurs.
ResolveLoop(cells, buf, background_colour, stop, panic) ==
    CHOOSE out \in
        {[panic |-> panic,
          stop |-> stop,
          cells |-> Table([k \in 0..(N - 1) |->
                         IF k < stop THEN res[cells[k]].cell ELSE cells[k]]),
          colour |-> Table([k \in 0..(stop - 1) |-> res[cells[k]].colour]),
          buffer |-> Table([k \in DOMAIN buf |->
                         IF k < stop THEN convert_colour_to_u32(res[cells[k]].colour)
                                     ELSE buf[k]])] :
            res \in {Table([cell \in {cells[k] : k \in 0..(stop - 1)} |->
                                resolve(cell, background_colour)])}} : TRUE

\* render_to_buffer without the check of the buffer length: the loop resolves
\* cell k and then writes buffer[k], which panics at the end of a short buffer
render_to_buffer_unchecked(cells, buf, background_colour) ==
    LET sorted == ResolveStop(cells)
    IN  IF BufLen(buf) < sorted
        THEN ResolveLoop(cells, buf, background_colour, BufLen(buf) + 1,
                         "panic: index out of bounds")
        ELSE ResolveLoop(cells, buf, background_colour, sorted,
                         IF sorted < N
                         THEN "panic: called Option::unwrap() on a None value"
                         ELSE "")

render_to_buffer(cells, buf, background_colour) ==
    IF BufLen(buf) # N
    THEN [panic |-> "panic: Buffer length does not match image size",
          stop |-> 0, cells |-> cells, colour |-> <<>>, buffer |-> buf]
    ELSE LET stop == ResolveStop(cells)
         IN  ResolveLoop(cells, buf, background_colour, stop,
                         IF stop < N
                         THEN "panic: called Option::unwrap() on a None value"
                         ELSE "")

Red8(pixel) == (pixel \div 65536) % 256
Green8(pixel) == (pixel \div 256) % 256
Blue8(pixel) == pixel % 256

\* luminance, in units of 1/(255 * 10000):
\* (0.2126 * r + 0.7152 * g + 0.0722 * b) / 255.0
luminance(pixel) == 2126 * Red8(pixel) + 7152 * Green8(pixel) + 722 * Blue8(pixel)

Abs(k) == IF k < 0 THEN -k ELSE k

\* r_sum, g_sum, b_sum: the sum over the pixels S of the 8 bits above unit
RECURSIVE SumOver(_, _, _)
SumOver(buf, S, unit) ==
    IF S = {} THEN 0
    ELSE LET k == CHOOSE j \in S : TRUE
         IN  ((buf[k] \div unit) % 256) + SumOver(buf, S \ {k}, unit)

\* run_fxaa_for_pixel averaging the eight neighbours, without the pixel
\* itself
run_fxaa_for_pixel_neighbours(buf, x, y, width) ==
    LET index == y * width + x
        left_luma == luminance(buf[index - 1])
        right_luma == luminance(buf[index + 1])
        top_luma == luminance(buf[index - width])
        bottom_luma == luminance(buf[index + width])
        luma_diff == Abs(left_luma - right_luma) + Abs(top_luma - bottom_luma)
        Around == {oy * width + ox : oy \in (y - 1)..(y + 1), ox \in (x - 1)..(x + 1)}
                      \ {index}
        r_avg == SumOver(buf, Around, 65536) \div 8
        g_avg == SumOver(buf, Around, 256) \div 8
        b_avg == SumOver(buf, Around, 1) \div 8
    IN  IF luma_diff > 255000
        THEN r_avg * 65536 + g_avg * 256 + b_avg
        ELSE buf[index]

\* the value run_fxaa_for_pixel writes to row[x]; luma_diff_threshold = 0.1
\* is 255000 in the units of luminance
run_fxaa_for_pixel(buf, x, y, width) ==
    LET index == y * width + x
        left_luma == luminance(buf[index - 1])
        right_luma == luminance(buf[index + 1])
        top_luma == luminance(buf[index - width])
        bottom_luma == luminance(buf[index + width])
        luma_diff == Abs(left_luma - right_luma) + Abs(top_luma - bottom_luma)
        Around == {oy * width + ox : oy \in (y - 1)..(y + 1), ox \in (x - 1)..(x + 1)}
        r_avg == SumOver(buf, Around, 65536) \div 9
        g_avg == SumOver(buf, Around, 256) \div 9
        b_avg == SumOver(buf, Around, 1) \div 9
    IN  IF luma_diff > 255000
        THEN r_avg * 65536 + g_avg * 256 + b_avg
        ELSE buf[index]

\* run_fxaa returning from the first and the last row without
\* row.copy_from_slice: the rows keep the zeros of the secondary buffer
run_fxaa_skips_border_rows(buf) ==
    Table([k \in 0..(N - 1) |->
        LET y == k \div Width
            x == k % Width
        IN  IF y = 0 \/ y = Height - 1 THEN 0
            ELSE IF x = 0 \/ x = Width - 1 THEN buf[k]
            ELSE run_fxaa_for_pixel(buf, x, y, Width)])

\* the secondary buffer run_fxaa fills, row by row, from the destination
\* buffer; each row is written from the destination buffer alone
run_fxaa(buf) ==
    Table([k \in 0..(N - 1) |->
        LET y == k \div Width
            x == k % Width
        IN  IF y = 0 \/ y = Height - 1 THEN buf[k]
            ELSE IF x = 0 \/ x = Width - 1 THEN buf[k]
            ELSE run_fxaa_for_pixel(buf, x, y, Width)])

\* the worker of row y reading the neighbours of a pixel in the buffer it
\* writes to
RunFxaaRow_aliased(buf, secondary, y) ==
    Table([k \in 0..(N - 1) |->
        IF k \div Width # y THEN secondary[k]
        ELSE LET x == k % Width
             IN  IF y = 0 \/ y = Height - 1 THEN buf[k]
                 ELSE IF x = 0 \/ x = Width - 1 THEN buf[k]
                 ELSE run_fxaa_for_pixel([secondary EXCEPT ![k] = buf[k]],
                                         x, y, Width)])

\* the worker of row y of run_fxaa: the secondary buffer after it, the
\* destination buffer being read only
RunFxaaRow(buf, secondary, y) ==
    Table([k \in 0..(N - 1) |->
        IF k \div Width # y THEN secondary[k]
        ELSE LET x == k % Width
             IN  IF y = 0 \/ y = Height - 1 THEN buf[k]
                 ELSE IF x = 0 \/ x = Width - 1 THEN buf[k]
                 ELSE run_fxaa_for_pixel(buf, x, y, Width)])

(***************************************************************************)
(* texture2d.rs: Texture2D.  A texture is [pixels, width, height], pixels  *)
(* a function on 0..width*height-1 of Vector4<u8>, row-major from the top  *)
(* row.                                                                    *)
(***************************************************************************)
\* a texture whose texel at column c of row r is (c, r, width, height)
Texture(width, height) ==
    [pixels |-> [k \in 0..(width * height - 1) |->
                    <<k % width, k \div width, width, height>>],
     width |-> width, height |-> height]

Textures == {Texture(w, h) : w \in 1..MaxTexSize, h \in 1..MaxTexSize}

\* the coordinates sample is called with: below 0, in 0..1, above 1
Coords == {I(-1), Q(-1, 2), I(0), Q(1, 4), Q(1, 2), Q(3, 4), I(1),
           Q(5, 4), Q(3, 2), I(2), I(3)}

Min(a, b) == IF a < b THEN a ELSE b

\* Vector4::new(x as f32, y as f32, z as f32, w as f32) / 255.0
TexelColour(u8_pixel) == [c \in 1..4 |-> Q(u8_pixel[c], 255)]

\* sample(&self, u, v).  `self.height - (..) as usize - 1` goes below zero
\* when the cast is height or more: a build with overflow checks panics
\* there, a build without them wraps to a value that min brings back to
\* height - 1.
sample(texture, u, v, overflow_checks) ==
    LET col == AsUsize(FMul(u, I(texture.width - 1)))
        down == AsUsize(FMul(v, I(texture.height - 1)))
        row == IF down + 1 > texture.height
               THEN texture.height - 1
               ELSE Min(texture.height - down - 1, texture.height - 1)
    IN  IF down + 1 > texture.height /\ overflow_checks
        THEN [panic |-> "panic: attempt to subtract with overflow", value |-> <<>>]
        ELSE [panic |-> "",
              value |-> TexelColour(texture.pixels[row * texture.width
                                                   + Min(col, texture.width - 1)])]

(***************************************************************************)
(* storage.rs: Storage.  A Vec is a sequence; its element `index` (from 0) *)
(* is element index + 1 of the sequence.                                   *)
(***************************************************************************)
Storage_default ==
    [textures2d |-> <<>>, textures2d_indices |-> <<>>, f32s |-> <<>>, mat4s |-> <<>>]

\* vec[index] clamped to the last element in place of the panic
Index_clamped(vec, index) ==
    IF vec = <<>> THEN [panic |-> "panic: index out of bounds", value |-> <<>>]
    ELSE [panic |-> "", value |-> vec[Min(index, Len(vec) - 1) + 1]]

\* vec[index]: the element, or the panic of an index out of range
Index(vec, index) ==
    IF index < Len(vec)
    THEN [panic |-> "", value |-> vec[index + 1]]
    ELSE [panic |-> "panic: index out of bounds", value |-> <<>>]

\* the vectors the caller binds: of textures, f32 and Matrix4<f32>
Scale(k) == << <<I(k), I(0), I(0), I(0)>>, <<I(0), I(k), I(0), I(0)>>,
               <<I(0), I(0), I(k), I(0)>>, <<I(0), I(0), I(0), I(1)>> >>
TextureVectors ==
    {[i \in 1..n |-> Texture(1 + ((i + s) % MaxTexSize), 1)] :
        n \in 0..MaxBound, s \in 0..1}
IndexVectors == UNION {[1..n -> 0..MaxBound] : n \in 0..MaxBound}
F32Vectors == {[i \in 1..n |-> Q(2 * i + s, 2)] : n \in 0..MaxBound, s \in 0..1}
Mat4Vectors == {[i \in 1..n |-> Scale(2 * i + s)] : n \in 0..MaxBound, s \in 0..1}

\* got when no getter and no sample was called since the last binding, and
\* after a call that returned a value or aborted
Idle == [op |-> "none", arg |-> <<>>, state |-> "idle", value |-> <<>>]
Returned(op, arg, value) == [op |-> op, arg |-> arg, state |-> "returned", value |-> value]
Aborted(op, arg) == [op |-> op, arg |-> arg, state |-> "aborted", value |-> <<>>]
\* a call of sample about to be made
Pending(texture, u, v) ==
    [op |-> "sample", arg |-> [texture |-> texture, u |-> u, v |-> v],
     state |-> "pending", value |-> <<>>]

(***************************************************************************)
(* The state.                                                              *)
(***************************************************************************)
VARIABLES
    raster_options,  \* RasterOptions: cull_backfaces, background_colour
    pp_options,      \* PostProcessorOptions: fxaa
    num_threads,     \* rayon::current_num_threads()
    render_buffer,   \* Rasterizer.render_buffer: the cell of each pixel
    pp_buffer,       \* PostProcessor.buffer, the secondary buffer
    buffer,          \* the caller's destination buffer
    status,          \* "running", or the panic that ended the program
    drawn,           \* per pixel, the calls of draw_pixel since the last render
    frame,           \* the meshes drawn since the last render, in order
    frames,          \* the frame of every completed render, in order
    resolved,        \* per pixel, drawn as it was when the cell was last resolved
    colour,          \* per pixel, the colour its last resolve returned
    storage,         \* Rasterizer.storage
    got              \* the last call of a getter or of sample: [op, arg, value]

vars == <<raster_options, pp_options, num_threads, render_buffer, pp_buffer,
          buffer, status, drawn, frame, frames, resolved, colour, storage, got>>

config == <<raster_options, pp_options, num_threads>>

\* Rasterizer: the fields draw_mesh and render work on, with what the model
\* records of them
raster == <<render_buffer, pp_buffer, buffer, drawn, frame, frames, resolved, colour>>

NoCalls == [k \in 0..(N - 1) |-> <<>>]

\* the calls of draw_mesh so far
RECURSIVE TotalLen(_)
TotalLen(seqs) == IF seqs = <<>> THEN 0 ELSE Len(Head(seqs)) + TotalLen(Tail(seqs))
DrawCount == Len(frame) + TotalLen(frames)

\* Renderer::new, and the buffer the caller allocates
InitRenderer ==
    /\ raster_options \in [cull_backfaces : BOOLEAN,
                           background_colour : BackgroundColours]
    /\ pp_options \in [fxaa : BOOLEAN]
    /\ num_threads \in 1..MaxThreads
    /\ render_buffer =
          [k \in 0..(N - 1) |-> RenderBufferPixel_new(raster_options.background_colour)]
    /\ pp_buffer = Zeros(N)
    /\ buffer \in {Zeros(len) : len \in {N - 1, N, N + 1}}
    /\ status = "running"
    /\ drawn = NoCalls
    /\ frame = <<>>
    /\ frames = <<>>
    /\ resolved = NoCalls
    /\ colour = [k \in 0..(N - 1) |-> raster_options.background_colour]
    /\ storage = Storage_default

Init == InitRenderer /\ got = Idle

\* Rasterizer::draw_mesh
draw_mesh(mesh) ==
    /\ status = "running"
    /\ Len(frames) < MaxFrames
    /\ DrawCount < MaxDraws
    /\ frame' = Append(frame, mesh)
    /\ IF RowsPerThread(num_threads) = 0
       THEN /\ status' = "panic: chunk_size must not be zero"
            /\ UNCHANGED <<render_buffer, drawn>>
       ELSE \E acc \in {DrawChunks([cells |-> render_buffer, drawn |-> drawn,
                                    panicked |-> FALSE],
                                   mesh, raster_options.cull_backfaces,
                                   num_threads, 0)} :
                IF acc.panicked
                THEN /\ status' = "panic: index out of bounds"
                     /\ UNCHANGED <<render_buffer, drawn>>
                ELSE /\ render_buffer' = acc.cells
                     /\ drawn' = acc.drawn
                     /\ UNCHANGED status
    /\ UNCHANGED <<config, pp_buffer, buffer, frames, resolved, colour, storage, got>>

\* process running the pass whatever the flag
process_always(buf, secondary, fxaa) ==
    LET out == run_fxaa(buf) IN <<out, out>>

\* PostProcessor::process on the destination buffer: <<destination buffer,
\* secondary buffer>> afterwards (run_fxaa ends with
\* buffer.copy_from_slice(&self.buffer))
process(buf, secondary, fxaa) ==
    IF fxaa THEN LET out == run_fxaa(buf) IN <<out, out>> ELSE <<buf, secondary>>

\* render returning after render_to_buffer, without post-processing
render_skips_process ==
    /\ status = "running"
    /\ Len(frames) < MaxFrames
    /\ \E out \in {render_to_buffer(render_buffer, buffer,
                                     raster_options.background_colour)} :
           /\ render_buffer' = out.cells
           /\ resolved' = [k \in 0..(N - 1) |->
                              IF k < out.stop THEN drawn[k] ELSE resolved[k]]
           /\ colour' = [k \in 0..(N - 1) |->
                            IF k < out.stop THEN out.colour[k] ELSE colour[k]]
           /\ drawn' = [k \in 0..(N - 1) |->
                           IF k < out.stop THEN <<>> ELSE drawn[k]]
           /\ buffer' = out.buffer
           /\ IF out.panic # ""
              THEN /\ status' = out.panic
                   /\ UNCHANGED <<pp_buffer, frame, frames>>
              ELSE /\ frames' = Append(frames, frame)
                   /\ frame' = <<>>
                   /\ UNCHANGED <<status, pp_buffer>>
    /\ UNCHANGED <<config, storage, got>>

\* Renderer::render
render ==
    /\ status = "running"
    /\ Len(frames) < MaxFrames
    /\ \E out \in {render_to_buffer(render_buffer, buffer,
                                     raster_options.background_colour)} :
           /\ render_buffer' = out.cells
           /\ resolved' = [k \in 0..(N - 1) |->
                              IF k < out.stop THEN drawn[k] ELSE resolved[k]]
           /\ colour' = [k \in 0..(N - 1) |->
                            IF k < out.stop THEN out.colour[k] ELSE colour[k]]
           /\ drawn' = [k \in 0..(N - 1) |->
                           IF k < out.stop THEN <<>> ELSE drawn[k]]
           /\ IF out.panic # ""
              THEN /\ status' = out.panic
                   /\ buffer' = out.buffer
                   /\ UNCHANGED <<pp_buffer, frame, frames>>
              ELSE \E done \in {process(out.buffer, pp_buffer, pp_options.fxaa)} :
                       /\ buffer' = done[1]
                       /\ pp_buffer' = done[2]
                       /\ frames' = Append(frames, frame)
                       /\ frame' = <<>>
                       /\ UNCHANGED status
    /\ UNCHANGED <<config, storage, got>>

Next ==
    \/ \E mesh \in MeshNames : draw_mesh(mesh)
    \/ render

Spec == Init /\ [][Next]_vars

(***************************************************************************)
(* The bindings and the getters of a Storage of its own, as                *)
(* Storage::default() builds it.                                           *)
(***************************************************************************)
\* no renderer is built: its variables hold nothing and stay so
NoRenderer ==
    /\ raster_options = <<>>
    /\ pp_options = <<>>
    /\ num_threads = 0
    /\ render_buffer = <<>>
    /\ pp_buffer = <<>>
    /\ buffer = <<>>
    /\ status = "running"
    /\ drawn = <<>>
    /\ frame = <<>>
    /\ frames = <<>>
    /\ resolved = <<>>
    /\ colour = <<>>

set_texture2ds(textures) ==
    /\ status = "running"
    /\ storage' = [storage EXCEPT !.textures2d = textures]
    /\ got' = Idle
    /\ UNCHANGED <<config, raster, status>>

set_texture2d_indices(indices) ==
    /\ status = "running"
    /\ storage' = [storage EXCEPT !.textures2d_indices = indices]
    /\ got' = Idle
    /\ UNCHANGED <<config, raster, status>>

set_f32s(f32s) ==
    /\ status = "running"
    /\ storage' = [storage EXCEPT !.f32s = f32s]
    /\ got' = Idle
    /\ UNCHANGED <<config, raster, status>>

set_mat4s(mat4s) ==
    /\ status = "running"
    /\ storage' = [storage EXCEPT !.mat4s = mat4s]
    /\ got' = Idle
    /\ UNCHANGED <<config, raster, status>>

\* a getter returning `out`, or ending the program with its panic
Get(op, index, out) ==
    /\ status = "running"
    /\ IF out.panic = ""
       THEN got' = Returned(op, index, out.value) /\ UNCHANGED status
       ELSE got' = Aborted(op, index) /\ status' = out.panic
    /\ UNCHANGED <<config, raster, storage>>

get_texture2d(index) ==
    \E first \in {Index(storage.textures2d_indices, index)} :
        IF first.panic # ""
        THEN Get("get_texture2d", index, first)
        ELSE Get("get_texture2d", index, Index(storage.textures2d, first.value))

get_f32(index) == Get("get_f32", index, Index(storage.f32s, index))

get_mat4(index) == Get("get_mat4", index, Index(storage.mat4s, index))

InitStorage ==
    /\ NoRenderer
    /\ storage = Storage_default
    /\ got = Idle

NextStorage ==
    \/ \E textures \in TextureVectors : set_texture2ds(textures)
    \/ \E indices \in IndexVectors : set_texture2d_indices(indices)
    \/ \E f32s \in F32Vectors : set_f32s(f32s)
    \/ \E mat4s \in Mat4Vectors : set_mat4s(mat4s)
    \/ \E index \in 0..MaxBound : get_texture2d(index)
    \/ \E index \in 0..MaxBound : get_f32(index)
    \/ \E index \in 0..MaxBound : get_mat4(index)

SpecStorage == InitStorage /\ [][NextStorage]_vars

(***************************************************************************)
(* Texture2D::sample, applied to a texture and a pair of coordinates.      *)
(***************************************************************************)
InitTexture ==
    /\ NoRenderer
    /\ storage = Storage_default
    /\ got \in {Pending(texture, u, v) : texture \in Textures, u \in Coords, v \in Coords}

\* the call of sample; overflow_checks is the build's setting
Sample ==
    /\ status = "running"
    /\ got.state = "pending"
    /\ \E overflow_checks \in BOOLEAN :
          \E out \in {sample(got.arg.texture, got.arg.u, got.arg.v, overflow_checks)} :
              IF out.panic = ""
              THEN got' = Returned("sample", got.arg, out.value) /\ UNCHANGED status
              ELSE got' = Aborted("sample", got.arg) /\ status' = out.panic
    /\ UNCHANGED <<config, raster, storage>>

NextTexture == Sample

SpecTexture == InitTexture /\ [][NextTexture]_vars

(***************************************************************************)
(* One RenderBufferPixel of its own: add and resolve applied to it.        *)
(***************************************************************************)
\* the fragments handed to add: one colour per depth, with an alpha on
\* either side of each threshold
CellColour(depth, alpha) ==
    <<I(IF depth = 0 THEN 1 ELSE 0), I(IF depth = -1 THEN 1 ELSE 0),
      I(IF depth = 1 THEN 1 ELSE 0), alpha>>
CellFragments ==
    {Fragment(CellColour(depth, alpha), I(depth)) :
        depth \in {-1, 0, 1},
        alpha \in {I(0), Q(1, 2), Q(9998, 10000), Q(9999, 10000), I(1)}}

\* got after a call on the cell: the cell the call left behind, and the
\* colour a resolve returned
OnCell(op, arg, cell, result_colour) ==
    [op |-> op, arg |-> arg, state |-> "returned",
     value |-> [cell |-> cell, colour |-> result_colour]]

\* RenderBufferPixel::new(background_colour)
InitCell ==
    /\ NoRenderer
    /\ storage = Storage_default
    /\ \E background_colour \in BackgroundColours :
          got = OnCell("new", background_colour,
                       RenderBufferPixel_new(background_colour), <<>>)

\* RenderBufferPixel::add on the cell.  The list takes one fragment of
\* alpha 0.9998 at most: compositing two of them takes the products of the
\* rationals past the 32 bits of the integers.
Add(fragment) ==
    /\ status = "running"
    /\ Len(got.value.cell.fragments) < MaxBound
    /\ fragment.colour[4] = Q(9998, 10000) =>
          \A i \in 1..Len(got.value.cell.fragments) :
              got.value.cell.fragments[i].colour[4] # Q(9998, 10000)
    /\ got' = OnCell("add", [cell |-> got.value.cell, fragment |-> fragment],
                     add(got.value.cell, fragment), <<>>)
    /\ UNCHANGED <<config, raster, storage, status>>

\* RenderBufferPixel::resolve on the cell
Resolve(background_colour) ==
    /\ status = "running"
    /\ got.op # "resolve"
    /\ \E out \in {resolve(got.value.cell, background_colour)} :
          IF out.panicked
          THEN /\ got' = Aborted("resolve", [cell |-> got.value.cell])
               /\ status' = "panic: called Option::unwrap() on a None value"
          ELSE /\ got' = OnCell("resolve", [cell |-> got.value.cell],
                                out.cell, out.colour)
               /\ UNCHANGED status
    /\ UNCHANGED <<config, raster, storage>>

NextCell ==
    \/ \E fragment \in CellFragments : Add(fragment)
    \/ \E background_colour \in BackgroundColours : Resolve(background_colour)

SpecCell == InitCell /\ [][NextCell]_vars

(***************************************************************************)
(* draw_triangle on one band that is the whole screen, applied to          *)
(* triangles whose vertices differ in clip-space z and w.                  *)
(***************************************************************************)
\* the upper-left half of the screen, each vertex with a z and a w of its own
DepthTriangles ==
    {<< <<I(-w[1]), I(-w[1]), I(z[1]), I(w[1])>>,
        <<I(w[2]), I(w[2]), I(z[2]), I(w[2])>>,
        <<I(-w[3]), I(w[3]), I(z[3]), I(w[3])>> >> :
        z \in [1..3 -> {0, 1}], w \in [1..3 -> {1, 2}]}

InitDepth ==
    /\ NoRenderer
    /\ storage = Storage_default
    /\ \E vertex_positions \in DepthTriangles :
          got = [op |-> "draw_triangle", arg |-> vertex_positions,
                 state |-> "pending", value |-> <<>>]

\* draw_triangle: got.value is the calls of draw_pixel it makes
Rasterize ==
    /\ status = "running"
    /\ got.state = "pending"
    /\ \E cull_backfaces \in BOOLEAN :
          got' = Returned("draw_triangle", got.arg,
                          DrawPixelCalls(got.arg, cull_backfaces, viewport,
                                         BoundingBox_new(<<0, 0>>, <<Width - 1, Height>>),
                                         Width))
    /\ UNCHANGED <<config, raster, storage, status>>

NextDepth == Rasterize

SpecDepth == InitDepth /\ [][NextDepth]_vars

(***************************************************************************)
(* PostProcessor::run_fxaa on a destination buffer, one step for each row  *)
(* worker of par_chunks_mut(width) and one for the copy back.              *)
(***************************************************************************)
\* the images the pass is run on: two colours, split along a column, along
\* a row, along the diagonal, in squares, or not at all
FxaaImage(pattern, c1, c2) ==
    [k \in 0..(N - 1) |->
        LET x == k % Width
            y == k \div Width
            first == CASE pattern = "column" -> x < 2
                       [] pattern = "row" -> y < 2
                       [] pattern = "diagonal" -> x <= y
                       [] pattern = "squares" -> (x + y) % 2 = 0
                       [] OTHER -> TRUE
        IN  IF first THEN c1 ELSE c2]
FxaaImages ==
    {FxaaImage(pattern, c1, c2) :
        pattern \in {"column", "row", "diagonal", "squares", "plain"},
        c1 \in {0, 16711680, 16777215}, c2 \in {0, 16711680, 16777215}}

\* got during the pass: the destination buffer and the secondary buffer as
\* they were when run_fxaa was called, and the rows whose worker has
\* finished, in the order they finished
FxaaPass(buf, secondary, rows, state) ==
    [op |-> "run_fxaa", arg |-> [buffer |-> buf, secondary |-> secondary],
     state |-> state, value |-> rows]

\* the secondary buffer is as PostProcessor::new left it, or holds the
\* result of a pass before
InitFxaa ==
    /\ raster_options = <<>>
    /\ pp_options = [fxaa |-> TRUE]
    /\ num_threads \in 1..MaxThreads
    /\ render_buffer = <<>>
    /\ buffer \in FxaaImages
    /\ pp_buffer \in {Zeros(N), FxaaImage("squares", 16777215, 0)}
    /\ status = "running"
    /\ drawn = <<>>
    /\ frame = <<>>
    /\ frames = <<>>
    /\ resolved = <<>>
    /\ colour = <<>>
    /\ storage = Storage_default
    /\ got = FxaaPass(buffer, pp_buffer, <<>>, "running")

\* the closure of for_each on row y
FxaaRow(y) ==
    /\ got.state = "running"
    /\ \A i \in 1..Len(got.value) : got.value[i] # y
    /\ pp_buffer' = RunFxaaRow(buffer, pp_buffer, y)
    /\ got' = [got EXCEPT !.value = Append(@, y)]
    /\ UNCHANGED <<config, render_buffer, buffer, status, drawn, frame, frames,
                   resolved, colour, storage>>

\* buffer.copy_from_slice(&self.buffer), once every worker has finished
CopyBack ==
    /\ got.state = "running"
    /\ Len(got.value) = Height
    /\ buffer' = pp_buffer
    /\ got' = [got EXCEPT !.state = "returned"]
    /\ UNCHANGED <<config, render_buffer, pp_buffer, status, drawn, frame, frames,
                   resolved, colour, storage>>

NextFxaa ==
    \/ \E y \in 0..(Height - 1) : FxaaRow(y)
    \/ CopyBack

SpecFxaa == InitFxaa /\ [][NextFxaa]_vars

(***************************************************************************)
(* Rasterizer::new(width, height, ..) and one draw_mesh of one triangle,   *)
(* on screens of every size up to one more than Width by Height and on     *)
(* worker pools of up to Height + 2 threads.                               *)
(***************************************************************************)
\* the two halves of the screen, and triangles past the bottom edge, the
\* right edge and both; no vertex is outside on x, y and z at once
BandTriangles ==
    {UpperLeft(0), LowerRight(0),
     <<V(-1, 1, 0, 1), V(0, -3, 0, 1), V(1, 1, 0, 1)>>,
     <<V(-1, -1, 0, 1), V(3, 0, 0, 1), V(-1, 1, 0, 1)>>,
     <<V(-1, 1, 0, 1), V(-1, -3, 0, 1), V(3, 1, 0, 1)>>}

\* draw_mesh of one face on a screen of width by height with a pool of
\* `threads` workers: the panic that ends it, or "" when it returns.  A
\* worker panics on a call of draw_pixel whose alpha_buffer_row_index is
\* not an index of its slice alpha_buffer_row.
DrawMeshOn(width, height, threads, vertex_positions, cull_backfaces) ==
    LET rows_per_thread == height \div threads
        chunk_size == width * rows_per_thread
        len == width * height
        Panics(row_num) ==
            LET start == row_num * rows_per_thread
                end == start + rows_per_thread
                bounding_box == BoundingBox_new(<<0, start>>, <<width - 1, end>>)
                alpha_buffer_row_len == Min(chunk_size, len - row_num * chunk_size)
            IN  \E calls \in {DrawPixelCalls(vertex_positions, cull_backfaces,
                                              build_viewport_matrix(width, height),
                                              bounding_box, width)} :
                    \E i \in 1..Len(calls) :
                        \/ calls[i].index - start * width < 0
                        \/ calls[i].index - start * width >= alpha_buffer_row_len
    IN  IF chunk_size = 0 THEN "panic: chunk_size must not be zero"
        ELSE IF \E row_num \in 0..(((len + chunk_size - 1) \div chunk_size) - 1) :
                    Panics(row_num)
        THEN "panic: index out of bounds"
        ELSE ""

InitBands ==
    /\ NoRenderer
    /\ storage = Storage_default
    /\ \E width \in 1..(Width + 1), height \in 1..(Height + 1),
          threads \in 1..(Height + 2), vertex_positions \in BandTriangles,
          cull_backfaces \in BOOLEAN :
          got = [op |-> "draw_mesh",
                 arg |-> [width |-> width, height |-> height, threads |-> threads,
                          vertex_positions |-> vertex_positions,
                          cull_backfaces |-> cull_backfaces],
                 state |-> "pending", value |-> <<>>]

\* the call of draw_mesh
DrawMesh ==
    /\ status = "running"
    /\ got.state = "pending"
    /\ \E panic \in {DrawMeshOn(got.arg.width, got.arg.height, got.arg.threads,
                                 got.arg.vertex_positions, got.arg.cull_backfaces)} :
          IF panic = ""
          THEN got' = Returned("draw_mesh", got.arg, <<>>) /\ UNCHANGED status
          ELSE got' = Aborted("draw_mesh", got.arg) /\ status' = panic
    /\ UNCHANGED <<config, raster, storage>>

NextBands == DrawMesh

SpecBands == InitBands /\ [][NextBands]_vars

(***************************************************************************)
(* What the properties below speak of.                                     *)
(***************************************************************************)
Pixels == 0..(N - 1)
Background == raster_options.background_colour
FreshCell == RenderBufferPixel_new(Background)

\* the face and the shader output of a recorded call of draw_pixel
FaceOf(e) == Meshes[e.mesh][e.face]
Opaque(c) == c # None /\ FGe(c[4], Q(9999, 10000))
Translucent(c) == c # None /\ FGt(c[4], Q(1, 10000)) /\ FLt(c[4], Q(9999, 10000))

\* the cell after the recorded calls of draw_pixel, made in their order
RECURSIVE ReplayCell(_, _)
ReplayCell(entries, cell) ==
    IF entries = <<>> THEN cell
    ELSE ReplayCell(Tail(entries),
                    draw_pixel(cell, Head(entries).depth, FaceOf(Head(entries))).cell)

\* a render has completed and nothing was drawn since
JustRendered == status = "running" /\ frame = <<>> /\ Len(frames) >= 1

\* resolved and colour are as the last step left them only after a render:
\* one that completed, or one that a panic ended
AfterRender == frame = <<>> \/ status # "running"

\* the depths of the calls are pairwise different, none of them NaN
DistinctDepths(entries) ==
    \A i, j \in 1..Len(entries) :
        i < j => FLt(entries[i].depth, entries[j].depth)
                    \/ FLt(entries[j].depth, entries[i].depth)

\* what was drawn to a pixel before its last resolve, with the colour the
\* resolve returned: the pairs that occur over the pixels of the screen
Resolution(k) == [calls |-> resolved[k], colour |-> colour[k]]
Resolutions == {Resolution(k) : k \in Pixels}

\* the colour resolved is the one every order of the calls resolves to
OrderIndependent(r) ==
    \A p \in Permutations(1..Len(r.calls)) :
        \E cell \in {ReplayCell([j \in 1..Len(r.calls) |-> r.calls[p[j]]],
                                 FreshCell)} :
            \E out \in {resolve(cell, Background)} :
                ~out.panicked /\ out.colour = r.colour

(***************************************************************************)
(* C1: Depth monotonicity.  When every fragment drawn to a pixel in a      *)
(* frame is fully opaque and one of them is strictly nearer than each of   *)
(* the others, whatever the order they were drawn in, the colour resolved  *)
(* for the pixel is the colour of that nearest fragment.                   *)
(***************************************************************************)
C1_DepthMonotonicity ==
    AfterRender =>
        \A r \in Resolutions : \A i \in 1..Len(r.calls) :
            (/\ Len(r.calls) >= 2
             /\ \A j \in 1..Len(r.calls) : Opaque(FaceOf(r.calls[j]).frag)
             /\ \A j \in 1..Len(r.calls) :
                   j # i => FLt(r.calls[i].depth, r.calls[j].depth))
            => r.colour = xyz(FaceOf(r.calls[i]).frag)

\* the farther opaque fragment was drawn first and the nearer one replaced it
C1_Witness ==
    \E k \in Pixels :
        /\ Len(resolved[k]) = 2
        /\ resolved[k][1].mesh # resolved[k][2].mesh
        /\ Opaque(FaceOf(resolved[k][1]).frag) /\ resolved[k][1].added
        /\ Opaque(FaceOf(resolved[k][2]).frag) /\ resolved[k][2].added
        /\ FLt(resolved[k][2].depth, resolved[k][1].depth)
        /\ colour[k] = xyz(FaceOf(resolved[k][2]).frag)
        /\ colour[k] # xyz(FaceOf(resolved[k][1]).frag)

(***************************************************************************)
(* C2: Order-independent transparency.  As stated: the colour resolved for *)
(* a pixel is the colour any other order of the same draws to the pixel    *)
(* resolves to.                                                            *)
(***************************************************************************)
C2_OrderIndependent == AfterRender => \A r \in Resolutions : OrderIndependent(r)

(***************************************************************************)
(* C2, amended: the colour resolved for a pixel is the colour any other    *)
(* order of the same draws resolves to, when the fragments drawn to the    *)
(* pixel have pairwise different depths, none of them NaN.                 *)
(***************************************************************************)
C2_OrderIndependentDistinctDepths ==
    AfterRender =>
        \A r \in Resolutions : DistinctDepths(r.calls) => OrderIndependent(r)

\* two translucent fragments of two draws, the farther one drawn first
C2_Witness ==
    \E k \in Pixels :
        /\ Len(resolved[k]) = 2
        /\ resolved[k][1].mesh # resolved[k][2].mesh
        /\ Translucent(FaceOf(resolved[k][1]).frag) /\ resolved[k][1].added
        /\ Translucent(FaceOf(resolved[k][2]).frag) /\ resolved[k][2].added
        /\ FLt(resolved[k][2].depth, resolved[k][1].depth)
        /\ colour[k] # Background
        /\ OrderIndependent(Resolution(k))

(***************************************************************************)
(* C3: Resolve resets the cell.  After a render every cell is in its       *)
(* initial state (no translucent fragment, the background slot holding the *)
(* configured colour with alpha 1 at the sentinel depth), and a pixel that *)
(* nothing was drawn to since the resolve before resolves to exactly the   *)
(* configured background colour.                                           *)
(***************************************************************************)
C3_ResolveResets ==
    /\ JustRendered => \A k \in Pixels : render_buffer[k] = FreshCell
    /\ Len(frames) >= 1 =>
          \A k \in Pixels : resolved[k] = <<>> => colour[k] = Background

\* a frame that inserted translucent fragments, then a render with no draw
\* since the render before it
C3_Witness ==
    /\ JustRendered
    /\ frames = << <<"glass_red">>, <<>> >>
    /\ \A k \in Pixels : colour[k] = Background /\ render_buffer[k] = FreshCell

(***************************************************************************)
(* C4: Compositing of one translucent fragment.  A pixel whose only        *)
(* fragment is translucent, of colour C and alpha a, and nearer than the   *)
(* background B, resolves to C*a + B*(1-a) per channel; red (1,0,0) with   *)
(* alpha 0.5 at depth 1 over white resolves to (1, 0.5, 0.5).              *)
(***************************************************************************)
C4_SingleTranslucent ==
    AfterRender =>
        \A r \in Resolutions :
            (/\ Len(r.calls) = 1
             /\ Translucent(FaceOf(r.calls[1]).frag)
             /\ FLt(r.calls[1].depth, F32_MAX))
            => LET C == FaceOf(r.calls[1]).frag
               IN  /\ r.colour = [c \in 1..3 |->
                                     FAdd(FMul(C[c], C[4]),
                                          FMul(Background[c], FSub(I(1), C[4])))]
                   /\ (C = RedHalf /\ Background = White)
                         => r.colour = <<I(1), Q(1, 2), Q(1, 2)>>

\* red with alpha 0.5 at depth 1 over white
C4_Witness ==
    \E k \in Pixels :
        /\ Background = White
        /\ Len(resolved[k]) = 1
        /\ resolved[k][1].mesh = "glass_red" /\ resolved[k][1].added
        /\ resolved[k][1].depth = I(1)
        /\ colour[k] = <<I(1), Q(1, 2), Q(1, 2)>>

\* the three clip-space vertices lie outside the same half-space
SameHalfSpace(vertex_positions) ==
    \E axis \in 1..3 :
        \/ \A i \in 1..3 : FLt(vertex_positions[i][axis], FNeg(vertex_positions[i][4]))
        \/ \A i \in 1..3 : FGt(vertex_positions[i][axis], vertex_positions[i][4])

(***************************************************************************)
(* C5: Coarse reject.  A triangle whose three clip-space vertices all lie  *)
(* outside the same half-space (all x < -w, all x > w, or likewise for y   *)
(* or z) inserts no fragment into any cell.                                *)
(***************************************************************************)
C5_CoarseReject ==
    \A k \in Pixels : \A j \in 1..Len(drawn[k]) :
        SameHalfSpace(FaceOf(drawn[k][j]).v) => ~drawn[k][j].added

\* the area of the triangle of three screen points
ScreenArea(p) ==
    FMul(Q(1, 2), FSub(FMul(FSub(p[2][1], p[1][1]), FSub(p[3][2], p[1][2])),
                       FMul(FSub(p[3][1], p[1][1]), FSub(p[2][2], p[1][2]))))

ZeroArea(vertex_positions) ==
    IsZero(ScreenArea(ScreenCoords2d(
                          ScreenCoordsPrePerspective(vertex_positions, viewport))))

(***************************************************************************)
(* C6: Degenerate triangles are tolerated.  A triangle of zero             *)
(* screen-space area inserts no fragment into any cell and does not abort  *)
(* the draw call, with backface culling on or off.                         *)
(***************************************************************************)
C6_DegenerateTolerated ==
    /\ \A k \in Pixels : \A j \in 1..Len(drawn[k]) :
          ZeroArea(FaceOf(drawn[k][j]).v) => ~drawn[k][j].added
    /\ (frame # <<>> /\ frame[Len(frame)] = "degenerate") => status = "running"

(***************************************************************************)
(* C7: Full-screen quad.  After a frame that draws only the opaque red     *)
(* quad covering the whole viewport, rendered with fxaa = false, every     *)
(* pixel of the destination buffer, the last row and the last column       *)
(* included, is red.                                                       *)
(***************************************************************************)
C7_FullScreenQuad ==
    (/\ status = "running"
     /\ Len(frames) >= 1
     /\ frames[Len(frames)] = <<"quad">>
     /\ ~pp_options.fxaa)
    => \A k \in Pixels : buffer[k] = convert_colour_to_u32(xyz(Red))

\* the pixel centre (x, y) passes the barycentric test of the triangle
Covered(vertex_positions, x, y) ==
    ~OutsideTriangle(calculate_barycentric_coordinates(
                         ScreenCoords2d(ScreenCoordsPrePerspective(vertex_positions,
                                                                   viewport)),
                         <<I(x), I(y)>>))

\* a mesh of one triangle, wound so that its clip-space normal has z <= 0
BackfaceMesh(mesh) ==
    /\ Len(Meshes[mesh]) = 1
    /\ is_backface(Meshes[mesh][1].v)
    /\ ~triangle_outside_screen(Meshes[mesh][1].v)
    /\ Opaque(Meshes[mesh][1].frag)

(***************************************************************************)
(* C8: Backface culling.  A triangle whose clip-space normal has z <= 0,   *)
(* drawn to an empty accumulator, inserts no fragment when cull_backfaces  *)
(* is true, and inserts a fragment for each pixel it covers when           *)
(* cull_backfaces is false.                                                *)
(***************************************************************************)
C8_BackfaceCulling ==
    \A mesh \in MeshNames :
        (status = "running" /\ frame = <<mesh>> /\ BackfaceMesh(mesh))
        => IF raster_options.cull_backfaces
           THEN \A k \in Pixels : \A j \in 1..Len(drawn[k]) : ~drawn[k][j].added
           ELSE \A k \in Pixels :
                    Covered(Meshes[mesh][1].v, k % Width, k \div Width)
                    => \E j \in 1..Len(drawn[k]) : drawn[k][j].added

\* the step is a call of render: no mesh is appended to the frame
RenderCall == \A mesh \in MeshNames : frame' # Append(frame, mesh)

(***************************************************************************)
(* C9: render with a destination buffer whose length is not width*height   *)
(* aborts with the length panic, leaving every accumulator cell and every  *)
(* element of the destination buffer as it was.                            *)
(***************************************************************************)
C9_LengthCheckedFirst ==
    [][(RenderCall /\ BufLen(buffer) # N)
       => (/\ status' = "panic: Buffer length does not match image size"
           /\ UNCHANGED <<render_buffer, buffer, pp_buffer>>)]_vars

\* render has aborted on the length while cells held the fragments of a draw
C9_Witness ==
    /\ status = "panic: Buffer length does not match image size"
    /\ BufLen(buffer) # N
    /\ buffer = Zeros(BufLen(buffer))
    /\ \E k \in Pixels : drawn[k] # <<>> /\ render_buffer[k] # FreshCell

\* the destination buffer render gives when the pixels resolve to colours
BufferOf(colours) ==
    process([k \in Pixels |-> convert_colour_to_u32(colours[k])],
            Zeros(N), pp_options.fxaa)[1]

(***************************************************************************)
(* C10: Frame isolation.  After a render, the colour of every pixel is the *)
(* one that the draws made to the pixel since the render before (or since  *)
(* construction) resolve to on a cell in its initial state, each of them   *)
(* taking part in their order and nothing of an earlier frame; and the     *)
(* destination buffer holds those colours, post-processed.                 *)
(***************************************************************************)
C10_FrameIsolation ==
    JustRendered =>
        /\ \A r \in Resolutions :
              \E cell \in {ReplayCell(r.calls, FreshCell)} :
                  r.colour = resolve(cell, Background).colour
        /\ buffer = BufferOf(colour)

\* a translucent frame rendered after an opaque one shows the configured
\* background behind it, not the colour of the frame before
C10_Witness ==
    /\ status = "running"
    /\ frames = << <<"quad">>, <<"glass_green">> >>
    /\ \E k \in Pixels :
          /\ Len(resolved[k]) = 1 /\ resolved[k][1].added
          /\ colour[k] = Blend(Fragment(GreenHalf, I(-1)), Background)
          /\ ~pp_options.fxaa => buffer[k] = convert_colour_to_u32(colour[k])

\* the cells of a row of the screen
RowCells(row) == (row * Width)..(row * Width + Width - 1)

\* the chunks draw_mesh hands to its workers
Bands == 0..(NumChunks(num_threads) - 1)

(***************************************************************************)
(* C11: Band exclusivity.  When draw_mesh splits the accumulator, the      *)
(* bands are contiguous runs of whole rows, every row belongs to exactly   *)
(* one band, and every call of draw_pixel recorded on a cell was made by   *)
(* the worker of the band that holds the cell, so no cell is accessed by   *)
(* two workers.                                                            *)
(***************************************************************************)
C11_BandExclusivity ==
    RowsPerThread(num_threads) > 0 =>
        /\ \A row \in 0..(Height - 1) :
              Cardinality({b \in Bands :
                              RowCells(row) \subseteq ChunkCells(num_threads, b)}) = 1
        /\ \A b \in Bands :
              ChunkCells(num_threads, b) =
                  UNION {RowCells(row) : row \in
                            {r \in 0..(Height - 1) :
                                RowCells(r) \cap ChunkCells(num_threads, b) # {}}}
        /\ \A b1, b2 \in Bands :
              b1 # b2 => ChunkCells(num_threads, b1) \cap ChunkCells(num_threads, b2) = {}
        /\ \A k \in Pixels : \A log \in {drawn[k], resolved[k]} :
              \A j \in 1..Len(log) :
                  log[j].band \in Bands /\ k \in ChunkCells(num_threads, log[j].band)

\* two workers have each drawn to a cell of their own band
C11_Witness ==
    /\ num_threads = 2
    /\ \E k1, k2 \in Pixels :
          /\ drawn[k1] # <<>> /\ drawn[k1][1].band = 0 /\ drawn[k1][1].added
          /\ drawn[k2] # <<>> /\ drawn[k2][1].band = 1 /\ drawn[k2][1].added

\* the workers of draw_mesh finishing their chunks one after the other in
\* the given order
RECURSIVE DrawChunksInOrder(_, _, _, _, _)
DrawChunksInOrder(acc, mesh, cull_backfaces, threads, order) ==
    IF order = <<>> THEN acc
    ELSE DrawChunksInOrder(DrawFaces(acc, mesh, 1, cull_backfaces, threads, Head(order)),
                           mesh, cull_backfaces, threads, Tail(order))

\* the orders in which the workers of a pool of the given size may finish
BandOrders(threads) ==
    {[i \in 1..NumChunks(threads) |-> p[i - 1]] :
        p \in Permutations(0..(NumChunks(threads) - 1))}

\* the calls of draw_mesh of a frame, in order
RECURSIVE DrawMeshes(_, _, _, _, _)
DrawMeshes(acc, meshes, cull_backfaces, threads, order) ==
    IF meshes = <<>> \/ acc.panicked THEN acc
    ELSE DrawMeshes(DrawChunksInOrder(acc, Head(meshes), cull_backfaces, threads, order),
                    Tail(meshes), cull_backfaces, threads, order)

\* A run of one frame on a renderer just constructed with the options of
\* the state and a pool of the given size: the draws, then render into a
\* buffer of width * height elements.  The panic that ends it, or the
\* destination buffer.
RunFrame(meshes, threads, order) ==
    IF meshes # <<>> /\ RowsPerThread(threads) = 0
    THEN [panic |-> "panic: chunk_size must not be zero", buffer |-> <<>>]
    ELSE LET acc == DrawMeshes([cells |-> [k \in Pixels |-> FreshCell],
                                drawn |-> NoCalls, panicked |-> FALSE],
                               meshes, raster_options.cull_backfaces, threads, order)
             out == render_to_buffer(acc.cells, Zeros(N), Background)
         IN  IF acc.panicked
             THEN [panic |-> "panic: index out of bounds", buffer |-> <<>>]
             ELSE IF out.panic # ""
             THEN [panic |-> out.panic, buffer |-> <<>>]
             ELSE [panic |-> "",
                   buffer |-> process(out.buffer, Zeros(N), pp_options.fxaa)[1]]

(***************************************************************************)
(* C12: Determinism.  The destination buffer a render leaves is the one    *)
(* any other run of the same draws and render with the same meshes and     *)
(* options produces, whatever the size of the worker pool and the order in *)
(* which the band workers finish.                                          *)
(***************************************************************************)
C12_Determinism ==
    JustRendered =>
        \A threads \in 1..MaxThreads : \A order \in BandOrders(threads) :
            RunFrame(frames[Len(frames)], threads, order) =
                [panic |-> "", buffer |-> buffer]

\* the destination buffer as render_to_buffer leaves it for post-processing
ResolvedImage == [k \in Pixels |-> convert_colour_to_u32(colour[k])]

\* the pixels of row 0, the last row, column 0 and the last column
Border(k) ==
    \/ k \div Width = 0
    \/ k \div Width = Height - 1
    \/ k % Width = 0
    \/ k % Width = Width - 1

(***************************************************************************)
(* C13: FXAA border.  After a render with fxaa enabled, every pixel of     *)
(* row 0, the last row, column 0 and the last column of the destination    *)
(* buffer has the value it had before post-processing.                     *)
(***************************************************************************)
C13_FxaaBorder ==
    (JustRendered /\ pp_options.fxaa) =>
        \A k \in Pixels : Border(k) => buffer[k] = ResolvedImage[k]

\* fxaa has changed an interior pixel of an image whose border is not of
\* one colour
C13_Witness ==
    /\ JustRendered
    /\ pp_options.fxaa
    /\ \E k \in Pixels : ~Border(k) /\ buffer[k] # ResolvedImage[k]
    /\ \E k1, k2 \in Pixels :
          Border(k1) /\ Border(k2) /\ buffer[k1] # buffer[k2] /\ buffer[k1] # 0

\* |luma(left) - luma(right)| + |luma(top) - luma(bottom)| of pixel k of an
\* image, in the units of luminance
LumaDelta(image, k) ==
    Abs(luminance(image[k - 1]) - luminance(image[k + 1]))
        + Abs(luminance(image[k - Width]) - luminance(image[k + Width]))

\* the sum over the 3x3 neighbourhood of pixel k of the 8 bits above unit
Sum3x3(image, k, unit) ==
    LET c(j) == (image[j] \div unit) % 256
    IN  c(k - Width - 1) + c(k - Width) + c(k - Width + 1)
            + c(k - 1) + c(k) + c(k + 1)
            + c(k + Width - 1) + c(k + Width) + c(k + Width + 1)

(***************************************************************************)
(* C14: FXAA interior rule.  After a render with fxaa enabled, an interior *)
(* pixel whose luminance delta |luma(left) - luma(right)| + |luma(top) -   *)
(* luma(bottom)| does not exceed the threshold 0.1 has the value it had    *)
(* before post-processing; one whose delta exceeds it has in each channel  *)
(* the sum of the channel over its 3x3 neighbourhood before                *)
(* post-processing divided by 9, packed as R<<16 | G<<8 | B.               *)
(***************************************************************************)
C14_FxaaInterior ==
    (JustRendered /\ pp_options.fxaa) =>
        \A k \in Pixels :
            ~Border(k) =>
                IF LumaDelta(ResolvedImage, k) > 255000
                THEN buffer[k] = (Sum3x3(ResolvedImage, k, 65536) \div 9) * 65536
                                    + (Sum3x3(ResolvedImage, k, 256) \div 9) * 256
                                    + (Sum3x3(ResolvedImage, k, 1) \div 9)
                ELSE buffer[k] = ResolvedImage[k]

\* one interior pixel was averaged to a new value and another, on an edge
\* too faint or absent, was copied
C14_Witness ==
    /\ JustRendered
    /\ pp_options.fxaa
    /\ \E k1, k2 \in Pixels :
          /\ ~Border(k1) /\ LumaDelta(ResolvedImage, k1) > 255000
          /\ buffer[k1] # ResolvedImage[k1]
          /\ ~Border(k2) /\ LumaDelta(ResolvedImage, k2) <= 255000
          /\ buffer[k2] = ResolvedImage[k2]

(***************************************************************************)
(* C15: With fxaa = false, post-processing leaves every element of the     *)
(* destination buffer as the rasterizer's resolve wrote it, so the output  *)
(* of render is the output of the resolve.                                 *)
(***************************************************************************)
C15_NoFxaaUnchanged ==
    (JustRendered /\ ~pp_options.fxaa) =>
        /\ DOMAIN buffer = Pixels
        /\ \A k \in Pixels : buffer[k] = ResolvedImage[k]
        /\ pp_buffer = Zeros(N)

\* an interior pixel on an edge, which the pass would have averaged to
\* another value, is as resolved
C15_Witness ==
    /\ JustRendered
    /\ ~pp_options.fxaa
    /\ \E k \in Pixels :
          /\ ~Border(k)
          /\ LumaDelta(ResolvedImage, k) > 255000
          /\ buffer[k] = ResolvedImage[k]
          /\ buffer[k] # run_fxaa(ResolvedImage)[k]

(***************************************************************************)
(* C16: Packed output.  After a render every element of the destination    *)
(* buffer is R<<16 | G<<8 | B with each channel in 0..255 and the upper 8  *)
(* bits zero, whatever colours the fragment shader returned, components    *)
(* below 0 or above 1 included, with fxaa on or off.                       *)
(***************************************************************************)
C16_PackedOutput ==
    JustRendered =>
        \A k \in DOMAIN buffer :
            /\ buffer[k] \in Nat
            /\ buffer[k] \div 16777216 = 0
            /\ buffer[k] = Red8(buffer[k]) * 65536 + Green8(buffer[k]) * 256
                               + Blue8(buffer[k])

\* a pixel whose fragment had a red component of 2 and a green one of -1
C16_Witness ==
    /\ JustRendered
    /\ \E k \in Pixels :
          /\ Len(resolved[k]) = 1 /\ resolved[k][1].added
          /\ FaceOf(resolved[k][1]).frag = Overbright
          /\ colour[k] = xyz(Overbright)
          /\ ~pp_options.fxaa => buffer[k] = 255 * 65536 + 0 * 256 + 127

(***************************************************************************)
(* C17: Pipeline order.  A render call that returns has resolved every one *)
(* of the width*height cells, each with the draws made to it since the     *)
(* render before, and has then post-processed the buffer the resolve       *)
(* wrote: the destination buffer is the output of process on the fully     *)
(* resolved image.  A render call that aborts has not post-processed.      *)
(***************************************************************************)
C17_PipelineOrder ==
    [][RenderCall =>
          IF status' = "running"
          THEN /\ \A k \in Pixels :
                     resolved'[k] = drawn[k] /\ render_buffer'[k] = FreshCell
               /\ \E done \in {process(ResolvedImage', pp_buffer, pp_options.fxaa)} :
                     buffer' = done[1] /\ pp_buffer' = done[2]
          ELSE pp_buffer' = pp_buffer]_vars

\* a render has resolved fragments in every row and fxaa has then changed
\* the resolved image
C17_Witness ==
    /\ JustRendered
    /\ pp_options.fxaa
    /\ \A row \in 0..(Height - 1) : \E k \in RowCells(row) : resolved[k] # <<>>
    /\ buffer = run_fxaa(ResolvedImage)
    /\ buffer # ResolvedImage

\* the records of the calls of draw_pixel on the pixels: of the frame being
\* drawn, and of the frame last resolved
Logs == {drawn[k] : k \in Pixels} \cup {resolved[k] : k \in Pixels}

\* the cell of a pixel when call j of its record is made
CellBefore(log, j) == ReplayCell(SubSeq(log, 1, j - 1), FreshCell)

C18_StorageGetters ==
    /\ got.op = "get_f32" =>
          IF got.arg < Len(storage.f32s)
          THEN /\ got.state = "returned" /\ status = "running"
               /\ got.value = storage.f32s[got.arg + 1]
          ELSE got.state = "aborted" /\ status # "running"
    /\ got.op = "get_mat4" =>
          IF got.arg < Len(storage.mat4s)
          THEN /\ got.state = "returned" /\ status = "running"
               /\ got.value = storage.mat4s[got.arg + 1]
          ELSE got.state = "aborted" /\ status # "running"
    /\ got.op = "get_texture2d" =>
          IF /\ got.arg < Len(storage.textures2d_indices)
             /\ storage.textures2d_indices[got.arg + 1] < Len(storage.textures2d)
          THEN /\ got.state = "returned" /\ status = "running"
               /\ got.value =
                     storage.textures2d[storage.textures2d_indices[got.arg + 1] + 1]
          ELSE got.state = "aborted" /\ status # "running"

\* logical slot 0 was remapped to the second texture of the array, after
\* the bindings of f32s and mat4s were replaced
C18_Witness ==
    /\ got.op = "get_texture2d"
    /\ got.state = "returned"
    /\ got.arg = 0
    /\ Len(storage.textures2d) = 2
    /\ storage.textures2d_indices = <<1, 0>>
    /\ got.value = storage.textures2d[2]
    /\ got.value # storage.textures2d[1]
    /\ Len(storage.f32s) = 1
    /\ Len(storage.mat4s) = 2

\* trunc of a finite f32, and clamp of an integer
Trunc(a) == a[1] * (a[2] \div a[3])
Clamp(k, lo, hi) == IF k < lo THEN lo ELSE IF k > hi THEN hi ELSE k

(***************************************************************************)
(* C19: Texture sampling.  sample(u, v) returns without failing, for every *)
(* u and v, those below 0 and above 1 included, the texel at column        *)
(* clamp(trunc(u*(width-1)), 0, width-1) and row                           *)
(* clamp(height-1 - trunc(v*(height-1)), 0, height-1): v = 0 selects the   *)
(* bottom row and v >= 1 the top row.                                      *)
(***************************************************************************)
C19_TextureSampling ==
    (got.op = "sample" /\ got.state # "pending") =>
        LET texture == got.arg.texture
            col == Clamp(Trunc(FMul(got.arg.u, I(texture.width - 1))),
                         0, texture.width - 1)
            row == Clamp(texture.height - 1
                            - Trunc(FMul(got.arg.v, I(texture.height - 1))),
                         0, texture.height - 1)
        IN  /\ got.state = "returned"
            /\ status = "running"
            /\ got.value = TexelColour(texture.pixels[row * texture.width + col])
            /\ got.arg.v = I(0) => row = texture.height - 1
            /\ FGe(got.arg.v, I(1)) => row = 0

\* the translucent list the recorded calls of draw_pixel leave in a cell:
\* the fragments add pushed to the back of the list, in the order of the calls
Pushed(log) ==
    LET kept == SelectSeq(log, LAMBDA e : e.added /\ ~Opaque(FaceOf(e).frag))
    IN  [j \in 1..Len(kept) |-> Fragment(FaceOf(kept[j]).frag, kept[j].depth)]

C22_EarlyDepthReject ==
    \A k \in Pixels :
        /\ render_buffer[k] = ReplayCell(drawn[k], FreshCell)
        /\ \A j \in 1..Len(drawn[k]) :
              \E cell \in {CellBefore(drawn[k], j)} :
                  /\ FGe(drawn[k][j].depth, cell.background.depth)
                        => /\ ~drawn[k][j].shaded /\ ~drawn[k][j].added
                           /\ ReplayCell(SubSeq(drawn[k], 1, j), FreshCell) = cell
                  /\ drawn[k][j].shaded
                        => ~FGe(drawn[k][j].depth, cell.background.depth)

\* an opaque fragment of a second draw arrived behind the opaque fragment
\* of the first: the shader did not run and the cell is as the first left it
C22_Witness ==
    \E k \in Pixels :
        /\ Len(drawn[k]) = 2
        /\ drawn[k][1].mesh # drawn[k][2].mesh
        /\ Opaque(FaceOf(drawn[k][1]).frag) /\ drawn[k][1].added
        /\ Opaque(FaceOf(drawn[k][2]).frag)
        /\ FGe(drawn[k][2].depth, drawn[k][1].depth)
        /\ ~drawn[k][2].shaded
        /\ render_buffer[k] =
              [fragments |-> <<>>,
               background |-> Fragment(FaceOf(drawn[k][1]).frag, drawn[k][1].depth)]

(***************************************************************************)
(* C23: Fragment discard.  A call of draw_pixel for which the fragment     *)
(* shader returns none, or a colour with alpha <= 0.0001, leaves the cell  *)
(* of the pixel (background colour, background depth and translucent       *)
(* list) exactly as it was before the call.                                *)
(***************************************************************************)
C23_FragmentDiscard ==
    \A k \in Pixels :
        /\ render_buffer[k] = ReplayCell(drawn[k], FreshCell)
        /\ \A j \in 1..Len(drawn[k]) :
              LET frag == FaceOf(drawn[k][j]).frag
              IN  (frag = None \/ FLe(frag[4], Q(1, 10000)))
                  => /\ ~drawn[k][j].added
                     /\ ReplayCell(SubSeq(drawn[k], 1, j), FreshCell)
                           = CellBefore(drawn[k], j)

\* after a translucent fragment, the shader ran for a face it returns none
\* for and for a face it returns alpha 0 for, both nearer than the
\* background: the cell holds the translucent fragment and nothing else
C23_Witness ==
    \E k \in Pixels :
        /\ Len(drawn[k]) = 3
        /\ drawn[k][1].added /\ Translucent(FaceOf(drawn[k][1]).frag)
        /\ FaceOf(drawn[k][2]).frag = None /\ drawn[k][2].shaded
        /\ FaceOf(drawn[k][3]).frag = Clear /\ drawn[k][3].shaded
        /\ render_buffer[k] =
              [fragments |-> <<Fragment(FaceOf(drawn[k][1]).frag, drawn[k][1].depth)>>,
               background |-> FreshCell.background]

(***************************************************************************)
(* C24: Fragment routing.  A fragment inserted into a cell replaces the    *)
(* background slot (colour and depth) and leaves the translucent list      *)
(* unchanged if and only if its alpha >= 0.9999; otherwise it is appended  *)
(* to the translucent list and the background slot is unchanged.           *)
(***************************************************************************)
C24_FragmentRouting ==
    got.op = "add" =>
        LET before == got.arg.cell
            fragment == got.arg.fragment
            after == got.value.cell
            replaced == /\ after.background = fragment
                        /\ after.fragments = before.fragments
            appended == /\ after.fragments = before.fragments \o <<fragment>>
                        /\ after.background = before.background
        IN  /\ replaced <=> FGe(fragment.colour[4], Q(9999, 10000))
            /\ appended <=> ~FGe(fragment.colour[4], Q(9999, 10000))

\* a fragment of alpha 0.9999 took the background slot of a cell holding a
\* fragment of alpha 0.9998 in its translucent list
C24_Witness ==
    /\ got.op = "add"
    /\ got.arg.fragment.colour[4] = Q(9999, 10000)
    /\ Len(got.arg.cell.fragments) = 1
    /\ got.arg.cell.fragments[1].colour[4] = Q(9998, 10000)
    /\ got.value.cell.background = got.arg.fragment
    /\ got.value.cell.fragments = got.arg.cell.fragments

\* fragColor * fragAlpha + result * (1 - fragAlpha), per channel
Over(fragment, result) ==
    [c \in 1..3 |-> FAdd(FMul(fragment.colour[c], fragment.colour[4]),
                         FMul(result[c], FSub(I(1), fragment.colour[4])))]

\* the positions of a list of fragments from the nearest to the farthest,
\* fragments of one depth in the order of the list
NearestFirst(fragments) ==
    CHOOSE p \in Permutations(1..Len(fragments)) :
        \A i, j \in 1..Len(fragments) :
            i < j => \/ FLt(fragments[p[i]].depth, fragments[p[j]].depth)
                     \/ /\ FEq(fragments[p[i]].depth, fragments[p[j]].depth)
                        /\ p[i] < p[j]

\* Over applied once for each fragment not farther than background_depth,
\* from position i of the order p on
RECURSIVE FoldOver(_, _, _, _, _)
FoldOver(fragments, p, i, background_depth, result) ==
    IF i > Len(fragments) THEN result
    ELSE FoldOver(fragments, p, i + 1, background_depth,
                  IF FGt(fragments[p[i]].depth, background_depth)
                  THEN result
                  ELSE Over(fragments[p[i]], result))

(***************************************************************************)
(* C25: Resolve composition order.  The colour resolve returns is the fold *)
(* that starts from the colour of the background fragment and applies      *)
(* result = fragColor*fragAlpha + result*(1-fragAlpha) once for each       *)
(* translucent fragment not farther than the background, from the nearest  *)
(* to the farthest, skipping every fragment farther than the background.   *)
(***************************************************************************)
C25_ResolveOrder ==
    (got.op = "resolve" /\ got.state = "returned") =>
        LET cell == got.arg.cell
        IN  got.value.colour =
                FoldOver(cell.fragments, NearestFirst(cell.fragments), 1,
                         cell.background.depth, xyz(cell.background.colour))

\* the farther of two translucent fragments, at the depth of the opaque
\* background, was inserted first and composited last
C25_Witness ==
    /\ got.op = "resolve" /\ got.state = "returned"
    /\ got.arg.cell.background = Fragment(CellColour(0, I(1)), I(0))
    /\ got.arg.cell.fragments = <<Fragment(CellColour(0, Q(1, 2)), I(0)),
                                  Fragment(CellColour(-1, Q(1, 2)), I(-1))>>
    /\ got.value.colour = <<Q(3, 4), Q(1, 4), I(0)>>
    /\ got.value.colour # Over(got.arg.cell.fragments[2],
                               Over(got.arg.cell.fragments[1],
                                    xyz(got.arg.cell.background.colour)))

\* the triangles draw_triangle has rasterized in this frame: the screen
\* points of the faces drawn that cull_triangle let through
Screen2d(vertex_positions) ==
    ScreenCoords2d(ScreenCoordsPrePerspective(vertex_positions, viewport))
Rasterized ==
    UNION {{Screen2d(Meshes[frame[i]][f].v) :
               f \in {g \in 1..Len(Meshes[frame[i]]) :
                         ~cull_triangle(Meshes[frame[i]][g].v,
                                        raster_options.cull_backfaces)}} :
           i \in 1..Len(frame)}

\* the screen-space AABB of three points along an axis, and its ends as
\* pixel coordinates clamped to lo..hi
AabbMin(points, axis) == FMin(FMin(points[1][axis], points[2][axis]), points[3][axis])
AabbMax(points, axis) == FMax(FMax(points[1][axis], points[2][axis]), points[3][axis])
ClampedPixel(a, lo, hi) == AsUsize(FMax(FMin(a, I(hi)), I(lo)))

\* the pixel lies inside the triangle of the three points
InsideTriangle(points, x, y) ==
    ~OutsideTriangle(calculate_barycentric_coordinates(points, <<I(x), I(y)>>))

\* the box has the AABB clamped to the screen as x range and the AABB
\* clamped to the rows of the band as y range
ClampedRanges(points, b) ==
    LET box == from_triangle(points, ChunkBox(num_threads, b))
        start == ChunkStart(num_threads, b)
        end == ChunkEnd(num_threads, b)
    IN  /\ x_iter(box) = ClampedPixel(AabbMin(points, 1), 0, Width - 1)
                            ..ClampedPixel(AabbMax(points, 1), 0, Width - 1)
        /\ y_iter(box) = ClampedPixel(AabbMin(points, 2), start, end - 1)
                            ..ClampedPixel(AabbMax(points, 2), start, end - 1)

\* every pixel of the band inside the triangle is visited
BandCovered(points, b) ==
    LET box == from_triangle(points, ChunkBox(num_threads, b))
    IN  \A x \in 0..(Width - 1) :
            \A y \in ChunkStart(num_threads, b)..(ChunkEnd(num_threads, b) - 1) :
                InsideTriangle(points, x, y) => x \in x_iter(box) /\ y \in y_iter(box)

\* no pixel outside the band is visited
BandOnly(points, b) ==
    LET box == from_triangle(points, ChunkBox(num_threads, b))
    IN  (x_iter(box) # {} /\ y_iter(box) # {}) =>
            /\ x_iter(box) \subseteq 0..(Width - 1)
            /\ y_iter(box) \subseteq
                  ChunkStart(num_threads, b)..(ChunkEnd(num_threads, b) - 1)

(***************************************************************************)
(* C26: Triangle bounding box.  For every triangle rasterized and every    *)
(* band, the box computed for the triangle has as x range the triangle's   *)
(* screen-space AABB clamped to [0, width-1] and as y range the AABB       *)
(* clamped to [start, end-1]; every pixel of the band inside the triangle  *)
(* is visited and no pixel outside the band is visited.                    *)
(***************************************************************************)
C26_TriangleBoundingBox ==
    RowsPerThread(num_threads) > 0 =>
        \A points \in Rasterized : \A b \in Bands :
            /\ ClampedRanges(points, b)
            /\ BandCovered(points, b)
            /\ BandOnly(points, b)

\* the screen-space barycentric weights of a pixel in a triangle
ScreenWeights(vertex_positions, x, y) ==
    calculate_barycentric_coordinates(Screen2d(vertex_positions), <<I(x), I(y)>>)

\* the dot product of three weights with three values
Dot3(weights, values) ==
    FAdd(FAdd(FMul(weights[1], values[1]), FMul(weights[2], values[2])),
         FMul(weights[3], values[3]))

\* each weight divided by its vertex's clip-space w, renormalized to sum to 1
PerspectiveCorrect(weights, vertex_positions) ==
    LET scaled == [k \in 1..3 |-> FDiv(weights[k], vertex_positions[k][4])]
        sum == FAdd(FAdd(scaled[1], scaled[2]), scaled[3])
    IN  [k \in 1..3 |-> FDiv(scaled[k], sum)]

ClipZ(vertex_positions) == [k \in 1..3 |-> vertex_positions[k][3]]

(***************************************************************************)
(* C27: Pixel depth.  The depth handed to draw_pixel for a covered pixel   *)
(* is the dot product of the three clip-space z values with the            *)
(* screen-space barycentric weights of the pixel, and the weights handed   *)
(* to the fragment stage are the perspective-correct ones: each            *)
(* screen-space weight divided by its vertex's clip-space w, renormalized  *)
(* to sum to 1.                                                            *)
(***************************************************************************)
C27_PixelDepth ==
    (got.op = "draw_triangle" /\ got.state = "returned") =>
        \A k \in 1..Len(got.value) :
            LET call == got.value[k]
                weights == ScreenWeights(got.arg, call.x, call.y)
            IN  /\ call.frag_depth = Dot3(weights, ClipZ(got.arg))
                /\ call.bary_clip = PerspectiveCorrect(weights, got.arg)

\* what the pass computes for pixel k from the image it was called on
FxaaOf(image, k) ==
    IF Border(k) THEN image[k]
    ELSE run_fxaa_for_pixel(image, k % Width, k \div Width, Width)

\* the rows whose worker has finished
RowsDone == {got.value[i] : i \in 1..Len(got.value)}

(***************************************************************************)
(* C28: FXAA has no read/write aliasing.  While the row workers run, in    *)
(* whatever order, the destination buffer is as it was when the pass was   *)
(* called; each row of the secondary buffer whose worker has finished      *)
(* holds the pixels computed from that destination buffer alone, and every *)
(* other row holds what it held before the pass; the buffer copied back is *)
(* the same for every order of the rows.                                   *)
(***************************************************************************)
C28_FxaaNoAliasing ==
    got.op = "run_fxaa" =>
        /\ got.state = "running" => buffer = got.arg.buffer
        /\ \A k \in Pixels :
              pp_buffer[k] = IF k \div Width \in RowsDone
                             THEN FxaaOf(got.arg.buffer, k)
                             ELSE got.arg.secondary[k]
        /\ got.state = "returned" =>
              \A k \in Pixels : buffer[k] = FxaaOf(got.arg.buffer, k)

\* the workers finished from the last row to the first, over a secondary
\* buffer left by a pass before, and two pixels one above the other were
\* both replaced
C28_Witness ==
    /\ got.op = "run_fxaa" /\ got.state = "returned"
    /\ got.value = [i \in 1..Height |-> Height - i]
    /\ got.arg.secondary # Zeros(N)
    /\ \E k \in Pixels :
          /\ k + Width \in Pixels
          /\ buffer[k] # got.arg.buffer[k]
          /\ buffer[k + Width] # got.arg.buffer[k + Width]

(***************************************************************************)
(* C29: draw_mesh never aborts.  For every positive width and height,      *)
(* every worker-pool size and every triangle that passes the coarse        *)
(* reject, draw_mesh returns: no worker panics and no call of draw_pixel   *)
(* is given an index outside the slice of its band.                        *)
(***************************************************************************)
C29_DrawMeshCompletes ==
    got.op = "draw_mesh" =>
        /\ status = "running"
        /\ got.state # "aborted"

(***************************************************************************)
(* C30: Background slot monotonicity.  Between two resolves every          *)
(* replacement of the background fragment of a cell is by a fragment       *)
(* strictly nearer than the one it replaces, so the depth of the           *)
(* background never increases; in every reachable state the background     *)
(* fragment has alpha >= 0.9999 and every fragment in the translucent list *)
(* has alpha strictly between 0.0001 and 0.9999.                           *)
(***************************************************************************)
C30_BackgroundMonotone ==
    \A k \in Pixels :
        /\ render_buffer[k] = ReplayCell(drawn[k], FreshCell)
        /\ \A j \in 1..Len(drawn[k]) :
              LET before == CellBefore(drawn[k], j).background
                  after == ReplayCell(SubSeq(drawn[k], 1, j), FreshCell).background
              IN  /\ FLe(after.depth, before.depth)
                  /\ after # before => FLt(after.depth, before.depth)
        /\ FGe(render_buffer[k].background.colour[4], Q(9999, 10000))
        /\ \A i \in 1..Len(render_buffer[k].fragments) :
              /\ FGt(render_buffer[k].fragments[i].colour[4], Q(1, 10000))
              /\ FLt(render_buffer[k].fragments[i].colour[4], Q(9999, 10000))

====
